---- MODULE Spec2Model ----
(***************************************************************************)
(* Signal detection and execution engine of binance_bot.py:                *)
(*   - APIManager.get_kline       (request coalescing cache)               *)
(*   - MonitorTask.run            (detection scheduler)                    *)
(*   - MonitorTask.check_macd / check_ma_cross (crossover signal engine)   *)
(*   - AutoTradeTask / TradeManager (signal execution, orders, ledger)     *)
(*   - MonitorTask.handle_trading_signal (signal router)                   *)
(*   - binance_api_request        (gateway, timestamp retry)               *)
(*   - MonitorTask.check_price_change, AutoTradeTask.set_tp_sl prices      *)
(*   - TradeManager.update_positions (position map refresh)                *)
(* Each component has its own specification (SpecCache, SpecSched,         *)
(* SpecCross, SpecTrade, SpecRouter, SpecGateway, SpecPrice, SpecProtect,  *)
(* SpecPositions) over one set of variables; the variables of the          *)
(* components a specification does not run keep their initial values.      *)
(* SpecFaults is the scheduler with exceptions raised in it, SpecLife one  *)
(* watch tuple from its check through the router to its trade, SpecStop    *)
(* the scheduler being stopped, SpecDisable the scheduler while an owner   *)
(* switches monitors off, SpecPass two detections of one pass trading      *)
(* concurrently, SpecCacheFair the cache under fair scheduling.            *)
(* Time is counted in whole seconds.                                       *)
(***************************************************************************)
EXTENDS Integers, Sequences, FiniteSets, TLC

VARIABLES
    now,               \* time.time(), in seconds
    \* ---- APIManager (src/binance_bot.py 398-450)
    data_cache,        \* self.data_cache: cache_key -> [data, ts]
    pending_requests,  \* self.pending_requests: cache_key -> list of futures
    lock,              \* self.lock: the caller holding it, or NoOne
    lockWaiters,       \* callers suspended in lock.acquire(), FIFO
    cpc,               \* per get_kline caller: position in get_kline
    ckey,              \* per caller: cache_key of its call
    ctime,             \* per caller: current_time read at entry
    cresult,           \* per caller: the value get_kline returned
    cfetched,          \* per caller: it issued the upstream get_klines call
    cconc,             \* per caller: the callers in flight for the same key at its entry
    upstream,          \* cache_key -> number of upstream get_klines calls issued
    \* ---- MonitorTask.run (src/binance_bot.py 793-916)
    spc,               \* position of run(): loop_top, sleeping, gather,
                       \* recovering, stopped
    wakeAt,            \* when the pending asyncio.sleep returns
    gatherStart,       \* when the pending asyncio.gather was entered
    active,            \* self.active
    high_frequency_mode, \* self.high_frequency_mode
    next_check_time,   \* self.next_check_time
    last_detection,    \* self.last_detection: the detection keys marked True
    running,           \* detection tasks of the current pass not yet finished
    enqueued,          \* detection key -> number of execute_detection tasks created
    scanLog,           \* what the last scan computed for each watch entry
    profActive,        \* user_data['active'] per owner
    profEnabled,       \* user_data['monitors'][kind]['enabled'] per owner
    \* ---- MonitorTask.check_macd / check_ma_cross (src/binance_bot.py 998-1131)
    macd_cross_state,  \* self.macd_cross_state: key -> "golden" | "dead"
    ma_cross_state,    \* self.ma_cross_state: key -> "golden" | "dead"
    xpc,               \* per (indicator, key): idle, or sending the notification
    xcur,              \* per (indicator, key): current_state of the check in progress
    fired,             \* per (indicator, key): directions notified, oldest first
    forwarded,         \* per (indicator, key): signals given to handle_trading_signal
    lastCheck,         \* inputs and evaluation of the latest check
    nchecks,           \* number of checks run
    \* ---- TradeManager / AutoTradeTask (src/binance_bot.py 456-787)
    exPos,             \* the exchange: owner -> symbol -> None | "LONG" | "SHORT"
    positions,         \* trade_manager.positions: symbol -> side (one map for all owners)
    posWriter,         \* the user_id of the update_positions call that built that map
    system_positions,  \* user_data['system_positions'] per owner: symbol -> records
    tpc,               \* per execute_trade task: the await it is suspended in
    tuser,             \* per task: user_id
    tsym,              \* per task: symbol
    tsig,              \* per task: signal_type
    tclose,            \* per task: position['side'] read by close_position, and
                       \* whether the update_positions before it succeeded
    ttrace,            \* per task: orders and notifications of the invocation, in order
    ntrades,           \* number of execute_trade invocations started
    \* ---- MonitorTask.handle_trading_signal (src/binance_bot.py 1133-1227)
    auto_trading,      \* user_data['auto_trading'] per owner: enabled, mode, symbols
    binance_api,       \* user_data['binance_api'] per owner: key, secret
    rpc,               \* position of handle_trading_signal: idle, macd_cond, trading
    rsig,              \* the arguments of the call being (or last) handled
    rlog,              \* the calls that call has made, in order
    rdata,             \* the kline data check_macd_condition evaluated for that call
    nsignals,          \* number of handle_trading_signal calls
    \* ---- binance_api_request (src/binance_bot.py 121-161)
    gpc,               \* position of the call: idle, sent, syncing, done
    gmethod,           \* method argument
    gretry,            \* retry_on_time_error of the innermost frame
    gsent,             \* HTTP requests the call has sent
    gsyncs,            \* sync_binance_time calls the call has made
    glast,             \* the answer to the request sent last
    gresult,           \* what the call returned
    time_offset,       \* global time_offset, in ms
    ncalls,            \* number of binance_api_request calls made
    \* ---- MonitorTask.check_price_change (src/binance_bot.py 963-996)
    pcArgs,            \* symbol_info and kline_data of the call
    pcDone,            \* the call has returned
    pcNotified,        \* the alert message was sent
    pcLogged,          \* what the `except` of the call logged, or None
    \* ---- AutoTradeTask.set_tp_sl, trigger prices (src/binance_bot.py 732-781)
    tsArgs,            \* side, config['tp'], config['sl'] of the call
    tsStage,           \* start, computed (prices known), submitted
    tsTrig,            \* tp_price and sl_price
    tsOrders,          \* the protective orders submitted: type, side, stopPrice
    \* ---- MonitorTask.run, exceptions (src/binance_bot.py 810-916)
    passTime,          \* current_timestamp of the latest scan, -1 before the first
    passFaults,        \* per owner: the entry at which that scan raised, 0 for none
    passResults,       \* detection key -> "ok" | "raised", for the latest gather
    nfaults,           \* number of exceptions raised so far
    \* ---- TradeManager.update_positions (src/binance_bot.py 593-632)
    upArgs,            \* self.positions before the call, and the gateway's answer
    upPositions,       \* self.positions, with side and quantity
    upReturn,          \* the value returned ("True" / "False"), None before that
    \* ---- stop_monitor (src/binance_bot.py 1245-1256)
    stopReq,           \* position of stop_monitor, and where run() was when
                       \* it cleared the flag
    \* ---- button_callback, disable_monitor (src/binance_bot.py 1499-1524)
    disableReq         \* per owner: the monitor kinds the owner was told are switched off

cacheVars == <<data_cache, pending_requests, lock, lockWaiters, cpc, ckey, ctime,
               cresult, cfetched, cconc, upstream>>

schedVars == <<spc, wakeAt, gatherStart, active, high_frequency_mode, next_check_time,
               last_detection, running, enqueued, scanLog, profActive, profEnabled>>

crossVars == <<macd_cross_state, ma_cross_state, xpc, xcur, fired, forwarded,
               lastCheck, nchecks>>

tradeVars == <<exPos, positions, posWriter, system_positions, tpc, tuser, tsym, tsig, tclose,
               ttrace, ntrades>>

routerVars == <<auto_trading, binance_api, rpc, rsig, rlog, rdata, nsignals>>

gatewayVars == <<gpc, gmethod, gretry, gsent, gsyncs, glast, gresult, time_offset, ncalls>>

priceVars == <<pcArgs, pcDone, pcNotified, pcLogged>>

protectVars == <<tsArgs, tsStage, tsTrig, tsOrders>>

\* the components added to the four above
faultVars == <<passTime, passFaults, passResults, nfaults>>

refreshVars == <<upArgs, upPositions, upReturn>>

stopVars == <<stopReq>>

profileVars == <<disableReq>>

restVars == <<routerVars, gatewayVars, priceVars, protectVars, faultVars, refreshVars,
             stopVars, profileVars>>

vars == <<now, cacheVars, schedVars, crossVars, tradeVars, restVars>>

\* ------------------------------------------------------------------ bounds
\* last second of the cache runs
MaxTime == 7
\* the scheduler runs start in [SchedStart, SchedStart + 59] and end at SchedEnd
SchedStart == 3000
SchedEnd == 3700
\* longest time the detections of one pass take, in seconds
MaxDetect == 3
\* number of crossover checks in a run
MaxChecks == 3
\* number of execute_trade invocations in a run
MaxTrades == 2
\* number of handle_trading_signal calls in a run
MaxSignals == 2
\* number of binance_api_request calls in a run
MaxCalls == 3
\* number of rows in a positionRisk answer
MaxReported == 2
\* number of exceptions raised in a scheduler run with faults, and the
\* length of such a run in seconds
MaxFaults == 2
FaultRun == 200

\* ------------------------------------------------------- program constants
\* get_kline: `current_time - timestamp < 5`
CacheTTL == 5
\* run: asyncio.sleep(60), asyncio.sleep(5)
LowFreqSleep == 60
HighFreqSleep == 5
\* run: `0 <= time_diff <= 10`
WindowSeconds == 10
\* run: `self.next_check_time = next_end_timestamp + 10`
HighFreqLinger == 10
\* run: `await asyncio.sleep(10)` after an exception in the loop body
ErrorSleep == 10

NoOne == "no_one"
None == "None"

\* =========================================================================
\* APIManager.get_kline
\* =========================================================================
Callers == {"c1", "c2", "c3"}
\* (symbol, interval, market_type, limit) of the calls made by execute_detection
Requests == { <<"BTCUSDT", "60m", "contract", 100>>, <<"BTCUSDT", "5m", "contract", 2>> }
\* what get_klines can return: a candle payload, or None on a non-200 answer
\* or a network error
Payloads == {"klinesA", "klinesB"}
UpstreamResults == Payloads \cup {None}

CacheKey(req) == req

NoKey == <<>>

\* a cache entry that is never stale within a run
CacheFresh_Long(k, current_time) ==
    /\ k \in DOMAIN data_cache
    /\ current_time - data_cache[k].ts < CacheTTL + MaxTime + 2

CacheFresh(k, current_time) ==
    /\ k \in DOMAIN data_cache
    /\ current_time - data_cache[k].ts < CacheTTL

InFlight(c) == cpc[c] \in {"wait_lock", "fetching", "wait_future"}

\* a caller that starts its upstream call without taking the lock or looking
\* at the requests in flight
EnterLocked_Unguarded(c, k) ==
    /\ lock' = lock
    /\ pending_requests' = [kk \in DOMAIN pending_requests \cup {k} |->
                              IF kk = k THEN <<>> ELSE pending_requests[kk]]
    /\ cpc' = [cpc EXCEPT ![c] = "fetching"]
    /\ upstream' = [upstream EXCEPT ![k] = @ + 1]
    /\ cfetched' = [cfetched EXCEPT ![c] = TRUE]

\* The body of `async with self.lock:` up to its first suspension, run by
\* caller c with the lock in hand.
EnterLocked(c, k) ==
    /\ lock' = c
    /\ IF k \in DOMAIN pending_requests
       THEN /\ pending_requests' = [pending_requests EXCEPT ![k] = Append(@, c)]
            /\ cpc' = [cpc EXCEPT ![c] = "wait_future"]
            /\ UNCHANGED <<upstream, cfetched>>
       ELSE /\ pending_requests' = [kk \in DOMAIN pending_requests \cup {k} |->
                                      IF kk = k THEN <<>> ELSE pending_requests[kk]]
            /\ cpc' = [cpc EXCEPT ![c] = "fetching"]
            /\ upstream' = [upstream EXCEPT ![k] = @ + 1]
            /\ cfetched' = [cfetched EXCEPT ![c] = TRUE]

\* get_kline is called: cache check, then lock.acquire()
GetKline(c, req) ==
    LET k == CacheKey(req)
        current_time == now
    IN  /\ cpc[c] = "idle"
        /\ ckey' = [ckey EXCEPT ![c] = k]
        /\ ctime' = [ctime EXCEPT ![c] = current_time]
        /\ cconc' = [cconc EXCEPT ![c] = {d \in Callers \ {c} : InFlight(d) /\ ckey[d] = k}]
        /\ IF CacheFresh(k, current_time)
           THEN /\ cresult' = [cresult EXCEPT ![c] = data_cache[k].data]
                /\ cpc' = [cpc EXCEPT ![c] = "returned"]
                /\ UNCHANGED <<data_cache, pending_requests, lock, lockWaiters,
                               cfetched, upstream>>
           ELSE IF lock = NoOne /\ lockWaiters = <<>>
                THEN /\ EnterLocked(c, k)
                     /\ UNCHANGED <<data_cache, lockWaiters, cresult>>
                ELSE /\ lockWaiters' = Append(lockWaiters, c)
                     /\ cpc' = [cpc EXCEPT ![c] = "wait_lock"]
                     /\ UNCHANGED <<data_cache, pending_requests, lock, cresult,
                                    cfetched, upstream>>
        /\ UNCHANGED now

\* a released lock is handed to the first waiter
AcquireLock(c) ==
    /\ cpc[c] = "wait_lock"
    /\ lock = NoOne
    /\ lockWaiters # <<>>
    /\ Head(lockWaiters) = c
    /\ lockWaiters' = Tail(lockWaiters)
    /\ EnterLocked(c, ckey[c])
    /\ UNCHANGED <<now, data_cache, ckey, ctime, cresult, cconc>>

\* a fetcher that leaves its entry in the in-flight table
FetchReturn_NoCleanup(c, r) ==
    LET k == ckey[c]
    IN  /\ cpc[c] = "fetching"
        /\ data_cache' = [kk \in DOMAIN data_cache \cup {k} |->
                            IF kk = k THEN [data |-> r, ts |-> ctime[c]]
                            ELSE data_cache[kk]]
        /\ cresult' = [cresult EXCEPT ![c] = r]
        /\ cpc' = [cpc EXCEPT ![c] = "returned"]
        /\ lock' = NoOne
        /\ UNCHANGED <<now, pending_requests, lockWaiters, ckey, ctime, cfetched, cconc,
                       upstream>>
\* the upstream get_klines call of the fetcher returns r
FetchReturn(c, r) ==
    LET k == ckey[c]
        waiters == {pending_requests[k][i] : i \in 1..Len(pending_requests[k])}
    IN  /\ cpc[c] = "fetching"
        /\ data_cache' = [kk \in DOMAIN data_cache \cup {k} |->
                            IF kk = k THEN [data |-> r, ts |-> ctime[c]]
                            ELSE data_cache[kk]]
        /\ cresult' = [d \in Callers |-> IF d = c \/ d \in waiters THEN r ELSE cresult[d]]
        /\ cpc' = [d \in Callers |-> IF d = c \/ d \in waiters THEN "returned" ELSE cpc[d]]
        /\ pending_requests' = [kk \in DOMAIN pending_requests \ {k} |-> pending_requests[kk]]
        /\ lock' = NoOne
        /\ UNCHANGED <<now, lockWaiters, ckey, ctime, cfetched, cconc, upstream>>

CacheTick ==
    /\ now < MaxTime
    /\ now' = now + 1
    /\ UNCHANGED <<cacheVars, crossVars, tradeVars>>

CacheInit ==
    /\ data_cache = <<>>
    /\ pending_requests = <<>>
    /\ lock = NoOne
    /\ lockWaiters = <<>>
    /\ cpc = [c \in Callers |-> "idle"]
    /\ ckey = [c \in Callers |-> NoKey]
    /\ ctime = [c \in Callers |-> 0]
    /\ cresult = [c \in Callers |-> None]
    /\ cfetched = [c \in Callers |-> FALSE]
    /\ cconc = [c \in Callers |-> {}]
    /\ upstream = [k \in Requests |-> 0]

\* =========================================================================
\* MonitorTask.run
\* =========================================================================
Users == {"u1", "u2"}
MonitorKinds == {"price", "macd", "ma"}

\* config.py: DEFAULT_INTERVAL
DEFAULT_INTERVAL == "60m"

\* user_data['symbols'] of each owner, in file order
ProfileSymbols ==
    [u \in Users |->
       IF u = "u1"
       THEN << [symbol |-> "ETHUSDT", type |-> "spot", monitor |-> "price",
                interval |-> "15m", threshold |-> 5],
               [symbol |-> "BTCUSDT", type |-> "contract", monitor |-> "ma"] >>
       ELSE << [symbol |-> "BTCUSDT", type |-> "contract", monitor |-> "price",
                interval |-> "5m", threshold |-> 3],
               [symbol |-> "BTCUSDT", type |-> "contract", monitor |-> "macd"] >>]

\* an entry is named by its owner and its index in the owner's list
AllEntries == {x \in Users \X (1..2) : x[2] <= Len(ProfileSymbols[x[1]])}
EntryOf(x) == ProfileSymbols[x[1]][x[2]]

\* `interval_seconds = {...}.get(interval_str, 900)`
IntervalSeconds(interval_str) ==
    CASE interval_str = "5m" -> 300
      [] interval_str = "15m" -> 900
      [] interval_str = "60m" -> 3600
      [] interval_str = "240m" -> 14400
      [] OTHER -> 900

IntervalStr(symbol_info) ==
    IF symbol_info.monitor = "price" THEN symbol_info.interval ELSE DEFAULT_INTERVAL

\* `last_end_timestamp = (current_timestamp // interval_seconds) * interval_seconds`
LastEnd(current_timestamp, interval_seconds) ==
    (current_timestamp \div interval_seconds) * interval_seconds

\* `next_end_timestamp = last_end_timestamp + interval_seconds`
NextEnd(current_timestamp, interval_seconds) ==
    LastEnd(current_timestamp, interval_seconds) + interval_seconds

\* `detection_window = 0 <= time_diff <= 10`
DetectionWindow_Strict(time_diff) == 0 <= time_diff /\ time_diff < WindowSeconds
DetectionWindow(time_diff) == 0 <= time_diff /\ time_diff <= WindowSeconds

\* `detection_key = (user_id, symbol, market_type, interval_str, monitor_type, next_end_timestamp)`
DetectionKey(user_id, symbol_info, next_end_timestamp) ==
    <<user_id, symbol_info.symbol, symbol_info.type, IntervalStr(symbol_info),
      symbol_info.monitor, next_end_timestamp>>

\* `self.last_detection.get(detection_key, False)`
AlreadyDetected_Never(detection_key) == FALSE
AlreadyDetected(detection_key) == detection_key \in last_detection

\* the entries the scan reaches: owner active, monitor kind enabled
Scanned(x) == profActive[x[1]] /\ profEnabled[x[1]][EntryOf(x).monitor]

EntryNextEnd(x, t) == NextEnd(t, IntervalSeconds(IntervalStr(EntryOf(x))))
EntryKey(x, t) == DetectionKey(x[1], EntryOf(x), EntryNextEnd(x, t))
EntryDue(x, t) == DetectionWindow(EntryNextEnd(x, t) - t)

\* a high-frequency mode that never expires
HfExpired_Never(current_time) == FALSE
\* `if current_time > self.next_check_time`
HfExpired(current_time) == current_time > next_check_time

\* top of `while self.active:` up to the sleep
LoopTop ==
    /\ spc = "loop_top"
    /\ IF ~active
       THEN /\ spc' = "stopped"
            /\ UNCHANGED <<wakeAt, high_frequency_mode>>
       ELSE /\ spc' = "sleeping"
            /\ IF high_frequency_mode
               THEN /\ high_frequency_mode' = ~HfExpired(now)
                    /\ wakeAt' = now + HighFreqSleep
               ELSE /\ wakeAt' = now + LowFreqSleep
                    /\ UNCHANGED high_frequency_mode
    /\ UNCHANGED <<now, gatherStart, active, next_check_time, last_detection, running,
                   enqueued, scanLog, profActive, profEnabled>>

\* per owner, the entry at which the scan of that owner's profile raises
\* (load_user_data, a missing key): 0 for none, 1 already before any entry
NoFaults == [u \in Users |-> 0]
FaultChoices == [Users -> 0 .. 2]

\* a scan that an exception in one owner's profile ends for every owner
Reached_NoIsolation(x, fault) == Scanned(x) /\ fault = NoFaults
\* the entries the scan handles: the `except` inside the loop over the owners
\* logs and goes on with the next owner, so only the faulty owner's entries
\* from the faulty one on are left out
Reached(x, fault) == Scanned(x) /\ (fault[x[1]] = 0 \/ x[2] < fault[x[1]])

\* the sleep returns: one scan over every owner's watch entries, then gather
ScanWith(fault) ==
    LET due == {x \in AllEntries : Reached(x, fault) /\ EntryDue(x, now)}
        fresh == {x \in due : ~AlreadyDetected(EntryKey(x, now))}
        keys == {EntryKey(x, now) : x \in fresh}
    IN  /\ spc = "sleeping"
        /\ now >= wakeAt
        /\ scanLog' = [x \in AllEntries |->
                         IF Reached(x, fault)
                         THEN [t |-> now,
                               next_end |-> EntryNextEnd(x, now),
                               time_diff |-> EntryNextEnd(x, now) - now,
                               due |-> EntryDue(x, now),
                               skipped |-> EntryDue(x, now) /\ AlreadyDetected(EntryKey(x, now))]
                         ELSE scanLog[x]]
        /\ last_detection' = last_detection \cup keys
        /\ enqueued' = [k \in DOMAIN enqueued \cup keys |->
                          IF k \in keys
                          THEN (IF k \in DOMAIN enqueued THEN enqueued[k] ELSE 0) + 1
                          ELSE enqueued[k]]
        /\ IF fresh # {} /\ ~high_frequency_mode
           THEN /\ high_frequency_mode' = TRUE
                /\ next_check_time' =
                      EntryNextEnd(CHOOSE x \in fresh : TRUE, now) + HighFreqLinger
           ELSE UNCHANGED <<high_frequency_mode, next_check_time>>
        /\ running' = keys
        /\ gatherStart' = now
        /\ spc' = IF keys = {} THEN "loop_top" ELSE "gather"
        /\ UNCHANGED <<now, wakeAt, active, profActive, profEnabled>>

Scan == ScanWith(NoFaults)

\* one execute_detection task of the pass ends (normally or by raising:
\* gather(return_exceptions=True) collects either); gather returns with the last
DetectionDone(k) ==
    /\ spc = "gather"
    /\ k \in running
    /\ running' = running \ {k}
    /\ spc' = IF running' = {} THEN "loop_top" ELSE "gather"
    /\ UNCHANGED <<now, wakeAt, gatherStart, active, high_frequency_mode, next_check_time,
                   last_detection, enqueued, scanLog, profActive, profEnabled>>

\* time passes while run() is suspended in sleep or gather
SchedTick ==
    /\ now < SchedEnd
    /\ \/ spc = "sleeping" /\ now < wakeAt
       \/ spc = "recovering" /\ now < wakeAt
       \/ spc = "gather" /\ now < gatherStart + MaxDetect
    /\ now' = now + 1
    /\ UNCHANGED <<schedVars, crossVars, tradeVars>>

\* a scan with faults in the owners' profiles, counted
FaultyScan(fault) ==
    LET n == Cardinality({u \in Users : fault[u] # 0})
    IN  /\ nfaults + n <= MaxFaults
        /\ ScanWith(fault)
        /\ nfaults' = nfaults + n
        /\ passTime' = now
        /\ passFaults' = fault
        /\ passResults' = <<>>

\* the sleep returns and the loop body raises outside the per-owner `try`
\* (os.listdir): the outer `except` logs and sleeps 10 s
ScanFailed ==
    /\ spc = "sleeping"
    /\ now >= wakeAt
    /\ nfaults < MaxFaults
    /\ nfaults' = nfaults + 1
    /\ spc' = "recovering"
    /\ wakeAt' = now + ErrorSleep
    /\ UNCHANGED <<now, gatherStart, active, high_frequency_mode, next_check_time,
                   last_detection, running, enqueued, scanLog, profActive, profEnabled,
                   passTime, passFaults, passResults>>

\* the sleep of the outer `except` returns: back to `while self.active`
Recovered ==
    /\ spc = "recovering"
    /\ now >= wakeAt
    /\ spc' = "loop_top"
    /\ UNCHANGED <<now, wakeAt, gatherStart, active, high_frequency_mode, next_check_time,
                   last_detection, running, enqueued, scanLog, profActive, profEnabled,
                   faultVars>>

\* one execute_detection task ends, normally or by raising (execute_detection
\* logs and re-raises; gather(return_exceptions=True) keeps the exception as
\* that task's result)
DetectionEnds(k, raised) ==
    /\ raised => nfaults < MaxFaults
    /\ DetectionDone(k)
    /\ nfaults' = IF raised THEN nfaults + 1 ELSE nfaults
    /\ passResults' = [x \in DOMAIN passResults \cup {k} |->
                         IF x = k THEN (IF raised THEN "raised" ELSE "ok")
                         ELSE passResults[x]]
    /\ UNCHANGED <<passTime, passFaults>>

\* stop_monitor up to `await monitor_task.task`
StopMonitor ==
    /\ stopReq.pc = "idle"
    /\ active
    /\ active' = FALSE
    /\ stopReq' = [pc |-> "awaiting", at |-> spc]
    /\ UNCHANGED <<now, spc, wakeAt, gatherStart, high_frequency_mode, next_check_time,
                   last_detection, running, enqueued, scanLog, profActive, profEnabled,
                   faultVars>>

\* a stop_monitor that does not wait for run()
TaskDone_NoWait == TRUE
\* `await monitor_task.task` returns once run() has returned
TaskDone == spc = "stopped"

\* stop_monitor from the await on: `monitor_task = None`, return True
StopReturned ==
    /\ stopReq.pc = "awaiting"
    /\ TaskDone
    /\ stopReq' = [stopReq EXCEPT !.pc = "returned"]
    /\ UNCHANGED <<now, schedVars, faultVars>>

\* time passes while run() is suspended; the run is followed to its end once
\* the flag is cleared
StopTick ==
    /\ now < SchedEnd \/ ~active
    /\ \/ spc = "sleeping" /\ now < wakeAt
       \/ spc = "recovering" /\ now < wakeAt
       \/ spc = "gather" /\ now < gatherStart + MaxDetect
    /\ now' = now + 1
    /\ UNCHANGED <<schedVars, faultVars, stopVars, profileVars>>

StopInit == stopReq = [pc |-> "idle", at |-> None]

ProfileInit == disableReq = [u \in Users |-> {}]

FaultInit ==
    /\ passTime = -1
    /\ passFaults = NoFaults
    /\ passResults = <<>>
    /\ nfaults = 0

NoScan == [t |-> -1, next_end |-> -1, time_diff |-> -1, due |-> FALSE, skipped |-> FALSE]

SchedInit ==
    /\ spc = "loop_top"
    /\ wakeAt = 0
    /\ gatherStart = 0
    /\ active = TRUE
    /\ high_frequency_mode = FALSE
    /\ next_check_time = 0
    /\ last_detection = {}
    /\ running = {}
    /\ enqueued = <<>>
    /\ scanLog = [x \in AllEntries |-> NoScan]
    /\ profActive = [u \in Users |-> TRUE]
    /\ profEnabled = [u \in Users |-> [m \in MonitorKinds |-> TRUE]]

\* =========================================================================
\* MonitorTask.check_macd / check_ma_cross
\* =========================================================================
Indicators == {"macd", "ma"}
\* `key = f"{user_id}_{symbol}_{market_type}"`
CrossKey(user_id, symbol, market_type) == <<user_id, symbol, market_type>>
CrossKeys == {CrossKey(u, "BTCUSDT", "contract") : u \in Users}
XProcs == Indicators \X CrossKeys

\* checks that evaluate whatever they are given
MinRows_None(ind) == 0
\* `len(kline_data) < 50` (check_macd), `< 30` (check_ma_cross)
MinRows(ind) == IF ind = "macd" THEN 50 ELSE 30

\* kline_data as the checks see it: its number of rows (0: no payload) and the
\* last two points of the two indicator series computed from it
ShortRowCounts == {0, 29, 49}
Vals == {0, 1}
KlineInputs ==
    [rows : ShortRowCounts, prevA : {0}, prevB : {0}, curA : {0}, curB : {0}]
    \cup [rows : ShortRowCounts \ {0}, prevA : {0}, prevB : {1}, curA : {1}, curB : {0}]
    \cup [rows : {100}, prevA : Vals, prevB : Vals, curA : Vals, curB : Vals]

\* check_macd: `if prev_macd < prev_signal and current_macd > current_signal`
MacdCrossState(prev_macd, prev_signal, current_macd, current_signal) ==
    IF prev_macd < prev_signal /\ current_macd > current_signal THEN "golden"
    ELSE IF prev_macd > prev_signal /\ current_macd < current_signal THEN "dead"
    ELSE None

\* check_ma_cross: `if prev_ma9 < prev_ma26 and current_ma9 > current_ma26`
MaCrossState(prev_ma9, prev_ma26, current_ma9, current_ma26) ==
    IF prev_ma9 < prev_ma26 /\ current_ma9 > current_ma26 THEN "golden"
    ELSE IF prev_ma9 > prev_ma26 /\ current_ma9 < current_ma26 THEN "dead"
    ELSE None

CrossState(ind, d) ==
    IF ind = "macd" THEN MacdCrossState(d.prevA, d.prevB, d.curA, d.curB)
    ELSE MaCrossState(d.prevA, d.prevB, d.curA, d.curB)

\* a check that remembers no earlier crossing
LastState_Forgotten(ind, key) == None
\* `self.macd_cross_state.get(key, None)` / `self.ma_cross_state.get(key, None)`
LastState(ind, key) ==
    LET st == IF ind = "macd" THEN macd_cross_state ELSE ma_cross_state
    IN  IF key \in DOMAIN st THEN st[key] ELSE None

\* `if current_state is not None and current_state != last_state`
StateChanged_Level(current_state, last_state) == current_state # None
StateChanged(current_state, last_state) ==
    current_state # None /\ current_state # last_state

\* check_macd / check_ma_cross up to `await self.app.bot.send_message`
Check(ind, key, d) ==
    LET enough == d.rows >= MinRows(ind)
        current_state == IF enough THEN CrossState(ind, d) ELSE None
        last_state == LastState(ind, key)
    IN  /\ xpc[<<ind, key>>] = "idle"
        /\ nchecks < MaxChecks
        /\ nchecks' = nchecks + 1
        /\ lastCheck' = [n |-> nchecks + 1, ind |-> ind, key |-> key, data |-> d,
                         before |-> last_state, eval |-> current_state]
        /\ IF enough /\ StateChanged(current_state, last_state)
           THEN /\ xpc' = [xpc EXCEPT ![<<ind, key>>] = "sending"]
                /\ xcur' = [xcur EXCEPT ![<<ind, key>>] = current_state]
           ELSE UNCHANGED <<xpc, xcur>>
        /\ UNCHANGED <<macd_cross_state, ma_cross_state, fired, forwarded>>

\* send_message returned: the state is stored and the signal handed to
\* handle_trading_signal
SendDone(ind, key) ==
    LET x == <<ind, key>>
        upd(st) == [k \in DOMAIN st \cup {key} |-> IF k = key THEN xcur[x] ELSE st[k]]
    IN  /\ xpc[x] = "sending"
        /\ xpc' = [xpc EXCEPT ![x] = "idle"]
        /\ fired' = [fired EXCEPT ![x] = Append(@, xcur[x])]
        /\ forwarded' = [forwarded EXCEPT ![x] = Append(@, xcur[x])]
        /\ IF ind = "macd"
           THEN macd_cross_state' = upd(macd_cross_state) /\ UNCHANGED ma_cross_state
           ELSE ma_cross_state' = upd(ma_cross_state) /\ UNCHANGED macd_cross_state
        /\ UNCHANGED <<xcur, lastCheck, nchecks>>

\* a check that stores the new state before it sends the message
SendFailed_StateFirst(ind, key) ==
    LET x == <<ind, key>>
        upd(st) == [k \in DOMAIN st \cup {key} |-> IF k = key THEN xcur[x] ELSE st[k]]
    IN  /\ xpc[x] = "sending"
        /\ xpc' = [xpc EXCEPT ![x] = "idle"]
        /\ IF ind = "macd"
           THEN macd_cross_state' = upd(macd_cross_state) /\ UNCHANGED ma_cross_state
           ELSE ma_cross_state' = upd(ma_cross_state) /\ UNCHANGED macd_cross_state
        /\ UNCHANGED <<xcur, fired, forwarded, lastCheck, nchecks>>
\* send_message raised: `except Exception` logs, nothing else happens
SendFailed(ind, key) ==
    LET x == <<ind, key>>
    IN  /\ xpc[x] = "sending"
        /\ xpc' = [xpc EXCEPT ![x] = "idle"]
        /\ UNCHANGED <<macd_cross_state, ma_cross_state, xcur, fired, forwarded,
                       lastCheck, nchecks>>

NoCheck == [n |-> 0]

CrossInit ==
    /\ macd_cross_state = <<>>
    /\ ma_cross_state = <<>>
    /\ xpc = [x \in XProcs |-> "idle"]
    /\ xcur = [x \in XProcs |-> None]
    /\ fired = [x \in XProcs |-> <<>>]
    /\ forwarded = [x \in XProcs |-> <<>>]
    /\ lastCheck = NoCheck
    /\ nchecks = 0

\* =========================================================================
\* TradeManager, AutoTradeTask
\* =========================================================================
Tasks == {"t1", "t2"}
Symbols == {"BTCUSDT", "ETHUSDT"}
Sides == {"LONG", "SHORT"}
Signals == {"golden", "dead"}
MarketTypes == {"contract", "spot"}

\* what one binance_api_request can give its caller: the decoded answer, an
\* {"error": True, ...} dict, or None after an exception
Outcomes == {"ok", "error", "none"}

\* the owner's entry of auto_trading['symbols'] for the symbol, as
\* handle_trading_signal passes it to execute_trade (leverage is 1..125)
ConfigOf(user_id, symbol) ==
    [leverage |-> 10,
     amount |-> 100,
     tp |-> IF symbol = "BTCUSDT" THEN 5 ELSE 0,
     sl |-> IF user_id = "u1" THEN 2 ELSE 0]

\* update_positions: what self.positions is when the call returns
PositionsAfterRefresh(user_id, outcome) ==
    CASE outcome = "ok" ->
           [sym \in {x \in Symbols : exPos[user_id][x] # None} |-> exPos[user_id][sym]]
      [] outcome = "error" -> positions
      [] OTHER -> <<>>

\* update_positions: whose account self.positions describes when the call
\* returns; the early `return False` on an error answer rebuilds nothing
WriterAfterRefresh(user_id, outcome) ==
    IF outcome = "error" THEN posWriter ELSE user_id

\* `new_side = "LONG" if signal_type == "golden" else "SHORT"`
NewSide(signal_type) == IF signal_type = "golden" THEN "LONG" ELSE "SHORT"

\* `side="BUY" if new_side == "LONG" else "SELL"`
OrderSide(new_side) == IF new_side = "LONG" THEN "BUY" ELSE "SELL"

\* close_position: `side = "SELL" if position['side'] == "LONG" else "BUY"`
CloseSide(position_side) == IF position_side = "LONG" THEN "SELL" ELSE "BUY"

\* execute_trade: `if current_position:` and the two side comparisons
NeedsClose(pos, symbol, new_side) ==
    /\ symbol \in DOMAIN pos
    /\ \/ pos[symbol] = "LONG" /\ new_side = "SHORT"
       \/ pos[symbol] = "SHORT" /\ new_side = "LONG"

\* execute_trade: `if close_resp and "error" in close_resp:` for what
\* close_position returned, True or an error dict. `"error" in True` raises
\* TypeError, which leaves execute_trade.
CloseRespBranch_Ignore(close_resp) == "continue"
CloseRespBranch(close_resp) ==
    IF close_resp = "True" THEN "raise" ELSE "failed"

\* the exchange's net position (one-way mode) after a market order of the
\* given side: a first or same-side order opens/extends, an opposite order
\* reduces, flattens or flips it depending on the quantities
NetAfter(ex_side, order_side) ==
    LET s == IF order_side = "BUY" THEN "LONG" ELSE "SHORT"
    IN  IF ex_side = None \/ ex_side = s THEN {s} ELSE {ex_side, None, s}

Event(ev, res) == [ev |-> ev, res |-> res]
Log(t, e) == ttrace' = [ttrace EXCEPT ![t] = Append(@, e)]
Goto(t, where) == tpc' = [tpc EXCEPT ![t] = where]

\* place_market_order starts with change_leverage when leverage is set
PlaceEntry(cfg) == IF cfg.leverage > 0 THEN "lev" ELSE "ticker"

\* set_tp_sl after the current price was read: the first leg to submit
FirstLeg(cfg) == IF cfg.tp > 0 THEN "tp_order" ELSE IF cfg.sl > 0 THEN "sl_order" ELSE "done"
\* set_tp_sl after the take-profit leg
AfterTp(cfg) == IF cfg.sl > 0 THEN "sl_order" ELSE "done"

\* execute_trade is called by handle_trading_signal
ExecuteTrade(t, user_id, symbol, market_type, signal_type) ==
    /\ tpc[t] \in {"idle", "done"}
    /\ ntrades < MaxTrades
    /\ ntrades' = ntrades + 1
    /\ tuser' = [tuser EXCEPT ![t] = user_id]
    /\ tsym' = [tsym EXCEPT ![t] = symbol]
    /\ tsig' = [tsig EXCEPT ![t] = signal_type]
    /\ ttrace' = [ttrace EXCEPT ![t] = <<>>]
    /\ IF market_type \notin {"contract", "futures"}
       THEN Goto(t, "done")
       ELSE Goto(t, "et_refresh")
    /\ UNCHANGED <<exPos, positions, posWriter, system_positions, tclose>>

\* execute_trade: update_positions returned; close first or open
EtRefresh(t, outcome) ==
    LET pos == PositionsAfterRefresh(tuser[t], outcome)
    IN  /\ tpc[t] = "et_refresh"
        /\ positions' = pos
        /\ posWriter' = WriterAfterRefresh(tuser[t], outcome)
        /\ IF NeedsClose(pos, tsym[t], NewSide(tsig[t]))
           THEN Goto(t, "cp_refresh")
           ELSE Goto(t, PlaceEntry(ConfigOf(tuser[t], tsym[t])))
        /\ UNCHANGED <<exPos, system_positions, tuser, tsym, tsig, tclose, ttrace, ntrades>>

\* a close_position that finds a position whatever the map holds
HasPosition_Always(pos, symbol) == TRUE
\* close_position: `if symbol not in self.positions` is false
HasPosition(pos, symbol) == symbol \in DOMAIN pos

\* close_position: update_positions returned; its result is not looked at
CpRefresh(t, outcome) ==
    LET pos == PositionsAfterRefresh(tuser[t], outcome)
        sym == tsym[t]
    IN  /\ tpc[t] = "cp_refresh"
        /\ positions' = pos
        /\ posWriter' = WriterAfterRefresh(tuser[t], outcome)
        /\ tclose' = [tclose EXCEPT ![t] =
                        [side |-> IF sym \in DOMAIN pos THEN pos[sym] ELSE None,
                         refreshed |-> (outcome = "ok")]]
        /\ IF ~HasPosition(pos, sym)
           THEN \* {"error": True, "msg": "no position to close"}
                Goto(t, "notify_close")
           ELSE Goto(t, "cp_order")
        /\ UNCHANGED <<exPos, system_positions, tuser, tsym, tsig, ttrace, ntrades>>

\* a close that leaves the ledger as it is
LedgerAfterClose_Keep(sp, user_id, symbol) == sp
\* close_position: `if symbol in system_positions: del system_positions[symbol]`
\* and save_user_data
LedgerAfterClose(sp, user_id, symbol) ==
    [sp EXCEPT ![user_id] = [x \in DOMAIN @ \ {symbol} |-> @[x]]]

\* close_position: the reduce-only market order was answered. The exchange
\* fills it only against a position it can reduce.
CpOrder(t, outcome) ==
    LET u == tuser[t]
        sym == tsym[t]
        close_resp == IF outcome = "ok" THEN "True" ELSE "error"
    IN  /\ tpc[t] = "cp_order"
        /\ outcome = "ok" => exPos[u][sym] = tclose[t].side
        /\ Log(t, [ev |-> "close_order", res |-> outcome, side |-> CloseSide(tclose[t].side),
                   ex |-> exPos[u][sym], refreshed |-> tclose[t].refreshed,
                   held |-> sym \in DOMAIN system_positions[u]])
        /\ IF outcome = "ok"
           THEN /\ exPos' = [exPos EXCEPT ![u][sym] = None]
                /\ positions' = [x \in DOMAIN positions \ {sym} |-> positions[x]]
                /\ UNCHANGED posWriter
                /\ system_positions' = LedgerAfterClose(system_positions, u, sym)
           ELSE UNCHANGED <<exPos, positions, posWriter, system_positions>>
        /\ Goto(t, CASE CloseRespBranch(close_resp) = "failed" -> "notify_close"
                     [] CloseRespBranch(close_resp) = "raise" -> "raised"
                     [] OTHER -> PlaceEntry(ConfigOf(u, sym)))
        /\ UNCHANGED <<tuser, tsym, tsig, tclose, ntrades>>

\* execute_trade: the close-failure message was sent (or send_message raised)
NotifyClose(t, sent) ==
    /\ tpc[t] = "notify_close"
    /\ Log(t, Event("notify_close_failed", IF sent THEN "sent" ELSE "raised"))
    /\ Goto(t, IF sent THEN "done" ELSE "raised")
    /\ UNCHANGED <<exPos, positions, posWriter, system_positions, tuser, tsym, tsig, tclose, ntrades>>

\* a place_market_order that goes on whatever change_leverage returned
LeverageBranch_Proceed(leverage_resp) == "ticker"
\* place_market_order: `if leverage_resp and "error" in leverage_resp: return
\* leverage_resp`; the error dict then takes execute_trade's failure branch
LeverageBranch(leverage_resp) ==
    IF leverage_resp = "error" THEN "notify_fail" ELSE "ticker"

\* place_market_order: change_leverage returned
Lev(t, outcome) ==
    /\ tpc[t] = "lev"
    /\ Log(t, Event("leverage", outcome))
    /\ Goto(t, LeverageBranch(outcome))
    /\ UNCHANGED <<exPos, positions, posWriter, system_positions, tuser, tsym, tsig, tclose, ntrades>>

\* place_market_order: get_ticker_price returned
Ticker(t, outcome) ==
    /\ tpc[t] = "ticker"
    /\ Goto(t, IF outcome = "ok" THEN "po_order" ELSE "notify_fail")
    /\ UNCHANGED <<exPos, positions, posWriter, system_positions, tuser, tsym, tsig, tclose,
                   ttrace, ntrades>>

\* a ledger write on any answer at all, error answers included
HasOrderId_AnyAnswer(outcome) == outcome # "none"
\* place_market_order: `response and "orderId" in response`
HasOrderId(outcome) == outcome = "ok"

\* an execute_trade that goes on to the protective orders whatever the answer
ResponseBranch_Unchecked(outcome) == "et_refresh2"
\* execute_trade: `if response and "error" in response:` ... `elif response:`
\* for what place_market_order returned
ResponseBranch(outcome) ==
    CASE outcome = "ok" -> "et_refresh2"
      [] outcome = "error" -> "notify_fail"
      [] OTHER -> "done"

\* place_market_order: the market order was answered
PoOrder(t, outcome, after) ==
    LET u == tuser[t]
        sym == tsym[t]
        side == OrderSide(NewSide(tsig[t]))
    IN  /\ tpc[t] = "po_order"
        /\ after \in NetAfter(exPos[u][sym], side)
        /\ Log(t, [ev |-> "open_order", res |-> outcome, side |-> side,
                   ex |-> exPos[u][sym]])
        /\ exPos' = IF outcome = "ok" THEN [exPos EXCEPT ![u][sym] = after] ELSE exPos
        /\ system_positions' =
              IF HasOrderId(outcome)
              THEN [system_positions EXCEPT
                      ![u] = [x \in DOMAIN @ \cup {sym} |->
                                IF x = sym
                                THEN Append(IF x \in DOMAIN @ THEN @[x] ELSE <<>>,
                                            [side |-> side])
                                ELSE @[x]]]
              ELSE system_positions
        /\ Goto(t, ResponseBranch(outcome))
        /\ UNCHANGED <<positions, posWriter, tuser, tsym, tsig, tclose, ntrades>>

\* execute_trade: the entry-failure message was sent (or send_message raised)
NotifyFail(t, sent) ==
    /\ tpc[t] = "notify_fail"
    /\ Log(t, Event("notify_trade_failed", IF sent THEN "sent" ELSE "raised"))
    /\ Goto(t, IF sent THEN "done" ELSE "raised")
    /\ UNCHANGED <<exPos, positions, posWriter, system_positions, tuser, tsym, tsig, tclose, ntrades>>

\* execute_trade: update_positions after the entry returned
EtRefresh2(t, outcome) ==
    /\ tpc[t] = "et_refresh2"
    /\ positions' = PositionsAfterRefresh(tuser[t], outcome)
    /\ posWriter' = WriterAfterRefresh(tuser[t], outcome)
    /\ Goto(t, "notify_ok")
    /\ UNCHANGED <<exPos, system_positions, tuser, tsym, tsig, tclose, ttrace, ntrades>>

\* execute_trade: the trade message was sent (or raised); then set_tp_sl
NotifyOk(t, sent) ==
    /\ tpc[t] = "notify_ok"
    /\ Log(t, Event("notify_trade_ok", IF sent THEN "sent" ELSE "raised"))
    /\ Goto(t, IF sent THEN "ts_ticker" ELSE "raised")
    /\ UNCHANGED <<exPos, positions, posWriter, system_positions, tuser, tsym, tsig, tclose, ntrades>>

\* set_tp_sl: get_ticker_price returned
TsTicker(t, outcome) ==
    /\ tpc[t] = "ts_ticker"
    /\ Log(t, Event("protect_price", outcome))
    /\ Goto(t, IF outcome = "ok" THEN FirstLeg(ConfigOf(tuser[t], tsym[t])) ELSE "done")
    /\ UNCHANGED <<exPos, positions, posWriter, system_positions, tuser, tsym, tsig, tclose, ntrades>>

\* set_tp_sl: the TAKE_PROFIT_MARKET order was answered
TpOrder(t, outcome) ==
    /\ tpc[t] = "tp_order"
    /\ Log(t, Event("tp_order", outcome))
    /\ Goto(t, IF outcome = "error" THEN "tp_notify"
               ELSE AfterTp(ConfigOf(tuser[t], tsym[t])))
    /\ UNCHANGED <<exPos, positions, posWriter, system_positions, tuser, tsym, tsig, tclose, ntrades>>

\* set_tp_sl: the take-profit failure message was sent, or send_message
\* raised into set_tp_sl's `except`
TpNotify(t, sent) ==
    /\ tpc[t] = "tp_notify"
    /\ Log(t, Event("notify_tp_failed", IF sent THEN "sent" ELSE "raised"))
    /\ Goto(t, IF sent THEN AfterTp(ConfigOf(tuser[t], tsym[t])) ELSE "done")
    /\ UNCHANGED <<exPos, positions, posWriter, system_positions, tuser, tsym, tsig, tclose, ntrades>>

\* set_tp_sl: the STOP_MARKET order was answered
SlOrder(t, outcome) ==
    /\ tpc[t] = "sl_order"
    /\ Log(t, Event("sl_order", outcome))
    /\ Goto(t, IF outcome = "error" THEN "sl_notify" ELSE "done")
    /\ UNCHANGED <<exPos, positions, posWriter, system_positions, tuser, tsym, tsig, tclose, ntrades>>

\* set_tp_sl: the stop-loss failure message was sent (or raised)
SlNotify(t, sent) ==
    /\ tpc[t] = "sl_notify"
    /\ Log(t, Event("notify_sl_failed", IF sent THEN "sent" ELSE "raised"))
    /\ Goto(t, "done")
    /\ UNCHANGED <<exPos, positions, posWriter, system_positions, tuser, tsym, tsig, tclose, ntrades>>

\* an exception left execute_trade; handle_trading_signal's `except` logs it
Raised(t) ==
    /\ tpc[t] = "raised"
    /\ Log(t, Event("raised", "logged"))
    /\ Goto(t, "done")
    /\ UNCHANGED <<exPos, positions, posWriter, system_positions, tuser, tsym, tsig, tclose, ntrades>>

NoClose == [side |-> None, refreshed |-> FALSE]

TradeInit ==
    /\ exPos = [u \in Users |-> [sym \in Symbols |-> None]]
    /\ positions = <<>>
    /\ posWriter = None
    /\ system_positions = [u \in Users |-> <<>>]
    /\ tpc = [t \in Tasks |-> "idle"]
    /\ tuser = [t \in Tasks |-> "u1"]
    /\ tsym = [t \in Tasks |-> "BTCUSDT"]
    /\ tsig = [t \in Tasks |-> "golden"]
    /\ tclose = [t \in Tasks |-> NoClose]
    /\ ttrace = [t \in Tasks |-> <<>>]
    /\ ntrades = 0

\* =========================================================================
\* MonitorTask.handle_trading_signal, check_macd_condition
\* =========================================================================
\* TRADE_MODES
TradeModes == {"ma", "macd", "mamacd"}
\* binance_api['key'], binance_api['secret']: unset ('') or set
ApiKeys == {"", "key"}
ApiSecrets == {"", "secret"}
\* the task that runs the execute_trade called by handle_trading_signal
RouterTask == "t1"

\* the early returns skipping the test of the auto-trade list
Eligible_NoSymbolCheck(at, api, symbol) ==
    /\ at.enabled
    /\ api.key # "" /\ api.secret # ""
    /\ at.mode # None
\* handle_trading_signal does not return early: auto-trading enabled, both
\* credentials non-empty, a mode set, the symbol in auto_trading['symbols']
Eligible(at, api, symbol) ==
    /\ at.enabled
    /\ api.key # "" /\ api.secret # ""
    /\ at.mode # None
    /\ symbol \in at.symbols

\* a dispatch that lets every mode react to both monitor kinds
Dispatch_AnyMonitor(trade_mode, monitor_type) ==
    CASE trade_mode \in {"ma", "macd"} -> "execute_trade"
      [] trade_mode = "mamacd" -> "check_macd_condition"
      [] OTHER -> "return"
\* the if / elif chain on (trade_mode, monitor_type)
Dispatch(trade_mode, monitor_type) ==
    CASE trade_mode = "ma" /\ monitor_type = "ma" -> "execute_trade"
      [] trade_mode = "macd" /\ monitor_type = "macd" -> "execute_trade"
      [] trade_mode = "mamacd" /\ monitor_type = "ma" -> "check_macd_condition"
      [] OTHER -> "return"

\* check_macd_condition on the kline data get_kline gave it (curA, curB: the
\* last points of the MACD line and of its signal line); an exception in it
\* gives False like missing data
MacdCondition(d) == d.rows >= MinRows("macd") /\ d.curA > d.curB

\* the data check_macd_condition can be given
ConditionInputs == {d \in KlineInputs : d.prevA = 0 /\ d.prevB = 0 /\ d.rows \in {0, 49, 100}}

NoSignal == [user_id |-> None, symbol |-> None, market_type |-> None,
             signal_type |-> None, monitor_type |-> None]
NoData == [rows |-> -1, prevA |-> 0, prevB |-> 0, curA |-> 0, curB |-> 0]

\* handle_trading_signal is called by check_macd / check_ma_cross; it runs to
\* its first await: check_macd_condition, or the first await of execute_trade
HandleTradingSignal(user_id, symbol, market_type, signal_type, monitor_type) ==
    LET at == auto_trading[user_id]
        route == IF Eligible(at, binance_api[user_id], symbol)
                 THEN Dispatch(at.mode, monitor_type)
                 ELSE "return"
    IN  /\ rpc = "idle"
        /\ nsignals < MaxSignals
        /\ nsignals' = nsignals + 1
        /\ rsig' = [user_id |-> user_id, symbol |-> symbol, market_type |-> market_type,
                    signal_type |-> signal_type, monitor_type |-> monitor_type]
        /\ rdata' = NoData
        /\ CASE route = "execute_trade" ->
                  /\ ExecuteTrade(RouterTask, user_id, symbol, market_type, signal_type)
                  /\ rpc' = "trading"
                  /\ rlog' = <<"execute_trade">>
             [] route = "check_macd_condition" ->
                  /\ rpc' = "macd_cond"
                  /\ rlog' = <<"check_macd_condition">>
                  /\ UNCHANGED tradeVars
             [] OTHER ->
                  /\ rpc' = "idle"
                  /\ rlog' = <<>>
                  /\ UNCHANGED tradeVars
        /\ UNCHANGED <<auto_trading, binance_api>>

\* check_macd_condition returned, having evaluated the data d
CheckMacdCondition(d) ==
    /\ rpc = "macd_cond"
    /\ rdata' = d
    /\ IF MacdCondition(d)
       THEN /\ ExecuteTrade(RouterTask, rsig.user_id, rsig.symbol, rsig.market_type,
                            rsig.signal_type)
            /\ rpc' = "trading"
            /\ rlog' = Append(rlog, "execute_trade")
       ELSE /\ rpc' = "idle"
            /\ UNCHANGED <<rlog, tradeVars>>
    /\ UNCHANGED <<auto_trading, binance_api, rsig, nsignals>>

\* execute_trade returned (or raised, which `except Exception` logs)
ExecuteTradeReturned ==
    /\ rpc = "trading"
    /\ tpc[RouterTask] = "done"
    /\ rpc' = "idle"
    /\ UNCHANGED <<auto_trading, binance_api, rsig, rlog, rdata, nsignals, tradeVars>>

\* check_macd / check_ma_cross after send_message returned: the state is
\* stored and handle_trading_signal is called with the new state, with no
\* await in between
Forward(ind, key) ==
    /\ SendDone(ind, key)
    /\ HandleTradingSignal(key[1], key[2], key[3], xcur[<<ind, key>>], ind)

RouterInit ==
    /\ auto_trading = [u \in Users |-> [enabled |-> FALSE, mode |-> None, symbols |-> {}]]
    /\ binance_api = [u \in Users |-> [key |-> "", secret |-> ""]]
    /\ rpc = "idle"
    /\ rsig = NoSignal
    /\ rlog = <<>>
    /\ rdata = NoData
    /\ nsignals = 0

\* =========================================================================
\* binance_api_request
\* =========================================================================
Methods == {"GET", "POST", "DELETE", "PUT"}
\* `response.get("code") in [-1021, -1022]`
TimeErrorCodes == {-1021, -1022}
\* what one HTTP exchange gives: the decoded 200 answer, handle_response's
\* error dict with the exchange's code, or an exception
Answers ==
    {[kind |-> "ok", code |-> 0], [kind |-> "exception", code |-> 0]}
    \cup [kind : {"error"}, code : TimeErrorCodes \cup {-2019}]
NoAnswer == [kind |-> "none", code |-> 0]
\* the values sync_binance_time can set time_offset to
Offsets == {-1000, 0, 1000}

\* a retry after any error answer
NeedsRetry_AnyError(retry_on_time_error, response) ==
    /\ retry_on_time_error
    /\ response.kind = "error"
\* `retry_on_time_error and response and "error" in response and
\*  response.get("code") in [-1021, -1022]`
NeedsRetry(retry_on_time_error, response) ==
    /\ retry_on_time_error
    /\ response.kind = "error"
    /\ response.code \in TimeErrorCodes

\* a recursive call that may itself retry
RetryOnRecursion_Keep == TRUE
\* the retry_on_time_error argument of the recursive call
RetryOnRecursion == FALSE

\* binance_api_request is called; it builds the URL and sends the request. A
\* method other than GET, POST, DELETE leaves `response` unbound: the
\* UnboundLocalError is caught and None returned.
BinanceApiRequest(method) ==
    /\ gpc \in {"idle", "done"}
    /\ ncalls < MaxCalls
    /\ ncalls' = ncalls + 1
    /\ gmethod' = method
    /\ gretry' = TRUE
    /\ gsyncs' = 0
    /\ glast' = NoAnswer
    /\ IF method \in {"GET", "POST", "DELETE"}
       THEN gsent' = 1 /\ gpc' = "sent" /\ gresult' = NoAnswer
       ELSE gsent' = 0 /\ gpc' = "done" /\ gresult' = [kind |-> "None", code |-> 0]
    /\ UNCHANGED time_offset

\* the request sent last is answered
Answer(r) ==
    /\ gpc = "sent"
    /\ glast' = r
    /\ IF r.kind = "exception"
       THEN gpc' = "done" /\ gresult' = [kind |-> "None", code |-> 0] /\ UNCHANGED gsyncs
       ELSE IF NeedsRetry(gretry, r)
            THEN gpc' = "syncing" /\ gsyncs' = gsyncs + 1 /\ UNCHANGED gresult
            ELSE gpc' = "done" /\ gresult' = r /\ UNCHANGED gsyncs
    /\ UNCHANGED <<gmethod, gretry, gsent, time_offset, ncalls>>

\* sync_binance_time returned (having set time_offset, or not when the time
\* request failed) and the recursive binance_api_request sent the request again
SyncReturn(synced, off) ==
    /\ gpc = "syncing"
    /\ time_offset' = IF synced THEN off ELSE time_offset
    /\ gretry' = RetryOnRecursion
    /\ gsent' = gsent + 1
    /\ gpc' = "sent"
    /\ UNCHANGED <<gmethod, gsyncs, glast, gresult, ncalls>>

GatewayInit ==
    /\ gpc = "idle"
    /\ gmethod = "GET"
    /\ gretry = TRUE
    /\ gsent = 0
    /\ gsyncs = 0
    /\ glast = NoAnswer
    /\ gresult = NoAnswer
    /\ time_offset = 0
    /\ ncalls = 0

\* =========================================================================
\* MonitorTask.check_price_change
\* =========================================================================
\* closes are whole prices, thresholds whole percents
Abs(x) == IF x < 0 THEN -x ELSE x

\* the fallback of `symbol_info.get('threshold', ...)`: 3.0
DefaultThreshold == 3

\* `user_data` in check_price_change: the method has no parameter or local of
\* that name and the module no global, so evaluating it raises NameError
UserDataBound == FALSE

\* symbol_info (with or without a 'threshold') and kline_data (its number of
\* rows and the closes of its last two rows)
PriceArgs ==
    [has_threshold : BOOLEAN, threshold : {3, 5}, rows : {0, 1},
     prev_close : {100}, current_close : {100}]
    \cup [has_threshold : BOOLEAN, threshold : {3, 5}, rows : {2},
          prev_close : {100, 200}, current_close : 94 .. 106]

\* `abs(change_percent) > threshold` with
\* change_percent = ((current_close - prev_close) / prev_close) * 100
ExceedsThreshold(prev_close, current_close, threshold) ==
    Abs(current_close - prev_close) * 100 > threshold * prev_close

\* check_price_change, whole: the arguments of `symbol_info.get('threshold',
\* user_data.get(...))` are evaluated first, fallback included; then the row
\* test, the change and the alert (send_message delivers, or raises into the
\* `except`)
CheckPriceChange(delivered) ==
    /\ ~pcDone
    /\ pcDone' = TRUE
    /\ IF ~UserDataBound
       THEN /\ pcNotified' = FALSE
            /\ pcLogged' = "NameError"
       ELSE LET threshold == IF pcArgs.has_threshold THEN pcArgs.threshold
                             ELSE DefaultThreshold
            IN  IF pcArgs.rows < 2
                THEN pcNotified' = FALSE /\ pcLogged' = None
                ELSE IF ExceedsThreshold(pcArgs.prev_close, pcArgs.current_close, threshold)
                     THEN /\ pcNotified' = delivered
                          /\ pcLogged' = IF delivered THEN None ELSE "send_message"
                     ELSE pcNotified' = FALSE /\ pcLogged' = None
    /\ UNCHANGED pcArgs

PriceInit ==
    /\ pcArgs = [has_threshold |-> TRUE, threshold |-> 3, rows |-> 0,
                 prev_close |-> 100, current_close |-> 100]
    /\ pcDone = FALSE
    /\ pcNotified = FALSE
    /\ pcLogged = None

\* =========================================================================
\* AutoTradeTask.set_tp_sl: trigger prices
\* =========================================================================
\* prices are counted in units of 0.0001, percentages in units of 0.1 %
PerMille == 1000

\* n / d rounded to the nearest integer, ties to the even one: round(x, 4) on
\* a price counted in units of 0.0001
RoundHalfEven(n, d) ==
    LET q == n \div d
        r == n % d
    IN  IF 2 * r < d THEN q
        ELSE IF 2 * r > d THEN q + 1
        ELSE IF q % 2 = 0 THEN q ELSE q + 1

\* trigger prices that are not mirrored for a SHORT entry
TriggerPrices_NoMirror(side, current_price, tp, sl) ==
    [tp |-> current_price * (PerMille + tp), sl |-> current_price * (PerMille - sl)]
\* tp_price and sl_price, as numerators over PerMille:
\*   LONG:  current_price * (1 + tp/100), current_price * (1 - sl/100)
\*   else:  current_price * (1 - tp/100), current_price * (1 + sl/100)
TriggerPrices(side, current_price, tp, sl) ==
    IF side = "LONG"
    THEN [tp |-> current_price * (PerMille + tp), sl |-> current_price * (PerMille - sl)]
    ELSE [tp |-> current_price * (PerMille - tp), sl |-> current_price * (PerMille + sl)]

\* side, config['tp'], config['sl'] of a set_tp_sl call
ProtectArgs == [side : Sides, tp : {0, 25, 50}, sl : {0, 15, 20}]
\* prices get_ticker_price can report: 100.0000, 123.4567, 0.0003
TickerPrices == {1000000, 1234567, 3}

NoTrig == [tp |-> 0, sl |-> 0]

\* set_tp_sl: get_ticker_price returned current_price; tp_price and sl_price
\* are computed
TsCompute(current_price) ==
    /\ tsStage = "start"
    /\ tsStage' = "computed"
    /\ tsTrig' = TriggerPrices(tsArgs.side, current_price, tsArgs.tp, tsArgs.sl)
                    @@ [price |-> current_price]
    /\ UNCHANGED <<tsArgs, tsOrders>>

\* set_tp_sl: the legs with a positive percentage are submitted, take-profit
\* first, with `"stopPrice": round(tp_price, 4)` / `round(sl_price, 4)`
TsSubmit ==
    LET close_side == IF tsArgs.side = "LONG" THEN "SELL" ELSE "BUY"
        tp_leg == IF tsArgs.tp > 0
                  THEN <<[type |-> "TAKE_PROFIT_MARKET", side |-> close_side,
                          stopPrice |-> RoundHalfEven(tsTrig.tp, PerMille)]>>
                  ELSE <<>>
        sl_leg == IF tsArgs.sl > 0
                  THEN <<[type |-> "STOP_MARKET", side |-> close_side,
                          stopPrice |-> RoundHalfEven(tsTrig.sl, PerMille)]>>
                  ELSE <<>>
    IN  /\ tsStage = "computed"
        /\ tsStage' = "submitted"
        /\ tsOrders' = tp_leg \o sl_leg
        /\ UNCHANGED <<tsArgs, tsTrig>>

ProtectInit ==
    /\ tsArgs = [side |-> "LONG", tp |-> 0, sl |-> 0]
    /\ tsStage = "start"
    /\ tsTrig = NoTrig @@ [price |-> 0]
    /\ tsOrders = <<>>

\* =========================================================================
\* TradeManager.update_positions
\* =========================================================================
\* a row of the positionRisk answer: positionAmt in whole units; positionSide
\* is BOTH in one-way mode, LONG (amount >= 0) or SHORT (amount <= 0) in hedge
\* mode, or missing
PositionSideValues == {"absent", "BOTH", "LONG", "SHORT"}
Amounts == {-2, 0, 3}
Rows ==
    {r \in [symbol : Symbols, positionAmt : Amounts, positionSide : PositionSideValues] :
        /\ r.positionSide = "LONG" => r.positionAmt >= 0
        /\ r.positionSide = "SHORT" => r.positionAmt <= 0}

RECURSIVE SeqsUpTo(_, _)
SeqsUpTo(S, n) ==
    IF n = 0 THEN {<<>>}
    ELSE SeqsUpTo(S, n - 1) \cup {Append(q, x) : q \in {y \in SeqsUpTo(S, n - 1) : Len(y) = n - 1}, x \in S}

\* what the positionRisk request gives update_positions: a list of rows, an
\* error dict, or None
RiskAnswers ==
    [kind : {"rows"}, rows : SeqsUpTo(Rows, MaxReported)]
    \cup [kind : {"error", "none"}, rows : {<<>>}]

\* self.positions as an earlier refresh left it
EarlierMaps ==
    {<<>>,
     [x \in {"ETHUSDT"} |-> [side |-> "LONG", quantity |-> 3]],
     [x \in {"BTCUSDT"} |-> [side |-> "SHORT", quantity |-> 2]]}

\* the side of a row: positionSide unless missing or BOTH, else the sign
RowSide(pos) ==
    IF pos.positionSide # "absent" /\ pos.positionSide # "BOTH"
    THEN pos.positionSide
    ELSE IF pos.positionAmt > 0 THEN "LONG" ELSE "SHORT"

\* a refresh that fills the map it finds
StartMap_Merge(old) == old
\* `self.positions = {}`
StartMap(old) == <<>>

\* `for pos in response:` from row i on
RECURSIVE FillPositions(_, _, _)
FillPositions(map, response, i) ==
    IF i > Len(response) THEN map
    ELSE LET pos == response[i]
             next == IF pos.positionAmt # 0
                     THEN [x \in DOMAIN map \cup {pos.symbol} |->
                             IF x = pos.symbol
                             THEN [side |-> RowSide(pos), quantity |-> Abs(pos.positionAmt)]
                             ELSE map[x]]
                     ELSE map
         IN  FillPositions(next, response, i + 1)

\* one update_positions call: an error dict returns False at once; None
\* raises in the `for` after the map was emptied, and the `except` returns
\* False
UpdatePositions ==
    /\ upReturn = None
    /\ CASE upArgs.response.kind = "error" ->
              /\ upReturn' = "False"
              /\ UNCHANGED upPositions
         [] upArgs.response.kind = "none" ->
              /\ upReturn' = "False"
              /\ upPositions' = StartMap(upPositions)
         [] OTHER ->
              /\ upReturn' = "True"
              /\ upPositions' = FillPositions(StartMap(upPositions), upArgs.response.rows, 1)
    /\ UNCHANGED upArgs

RefreshInit ==
    /\ upArgs = [before |-> <<>>, response |-> [kind |-> "rows", rows |-> <<>>]]
    /\ upPositions = <<>>
    /\ upReturn = None

RestInit ==
    /\ RouterInit
    /\ GatewayInit
    /\ PriceInit
    /\ ProtectInit
    /\ FaultInit
    /\ RefreshInit
    /\ StopInit
    /\ ProfileInit

\* =========================================================================
\* specifications
\* =========================================================================
InitCache ==
    /\ RestInit
    /\ now = 0
    /\ CacheInit
    /\ SchedInit
    /\ CrossInit
    /\ TradeInit

NextCache ==
    \/ \E c \in Callers, req \in Requests : GetKline(c, req) /\ UNCHANGED <<schedVars, crossVars, tradeVars, restVars>>
    \/ \E c \in Callers : AcquireLock(c) /\ UNCHANGED <<schedVars, crossVars, tradeVars, restVars>>
    \/ \E c \in Callers, r \in UpstreamResults : FetchReturn(c, r) /\ UNCHANGED <<schedVars, crossVars, tradeVars, restVars>>
    \/ CacheTick /\ UNCHANGED <<schedVars, crossVars, tradeVars, restVars>>

SpecCache == InitCache /\ [][NextCache]_vars

\* time moves on by the lifetime of a cache entry, as during a slow upstream
\* call: what was cached before is stale afterwards
CacheTtlPasses ==
    /\ now + CacheTTL <= MaxTime
    /\ now' = now + CacheTTL
    /\ UNCHANGED <<cacheVars, crossVars, tradeVars>>

CacheRest == UNCHANGED <<schedVars, crossVars, tradeVars, restVars>>

NextCacheFair ==
    \/ \E c \in Callers, req \in Requests : GetKline(c, req) /\ CacheRest
    \/ \E c \in Callers : AcquireLock(c) /\ CacheRest
    \/ \E c \in Callers, r \in UpstreamResults : FetchReturn(c, r) /\ CacheRest
    \/ CacheTtlPasses /\ CacheRest

\* the event loop resumes a coroutine whose await can complete: the first
\* waiter once the lock is released, the fetcher once get_klines answers
SpecCacheFair ==
    /\ InitCache /\ [][NextCacheFair]_vars
    /\ WF_vars(\E c \in Callers : AcquireLock(c) /\ CacheRest)
    /\ WF_vars(\E c \in Callers, r \in UpstreamResults : FetchReturn(c, r) /\ CacheRest)

\* a scheduler run starts at any phase of the minute; u1 is active, u2 active
\* or not, and u1's `ma` monitor is enabled or not
InitSched ==
    /\ RestInit
    /\ now \in SchedStart .. (SchedStart + LowFreqSleep - 1)
    /\ CacheInit
    /\ CrossInit
    /\ TradeInit
    /\ spc = "loop_top"
    /\ wakeAt = 0
    /\ gatherStart = 0
    /\ active = TRUE
    /\ high_frequency_mode = FALSE
    /\ next_check_time = 0
    /\ last_detection = {}
    /\ running = {}
    /\ enqueued = <<>>
    /\ scanLog = [x \in AllEntries |-> NoScan]
    /\ profActive \in {f \in [Users -> BOOLEAN] : f["u1"]}
    /\ profEnabled \in {f \in [Users -> [MonitorKinds -> BOOLEAN]] :
                           /\ \A m \in MonitorKinds : f["u2"][m]
                           /\ f["u1"]["price"] /\ f["u1"]["macd"]}

NextSched ==
    \/ LoopTop /\ UNCHANGED <<cacheVars, crossVars, tradeVars, restVars>>
    \/ Scan /\ UNCHANGED <<cacheVars, crossVars, tradeVars, restVars>>
    \/ \E k \in running : DetectionDone(k) /\ UNCHANGED <<cacheVars, crossVars, tradeVars, restVars>>
    \/ SchedTick /\ UNCHANGED <<cacheVars, crossVars, tradeVars, restVars>>

SpecSched == InitSched /\ [][NextSched]_vars

(***************************************************************************)
(* The scheduler while owners switch monitor kinds off (button_callback,   *)
(* `disable_monitor:<kind>` and `disable_monitor:all`).                     *)
(***************************************************************************)

\* the owner switching off, and the buttons pressed
DisablingOwner == "u1"
DisableChoices == {"ma", "all"}

\* the handler loads the profile, edits the loaded dict and replies; only the
\* branch for a single kind calls save_user_data, so after `all` the file is
\* what it was
DisableMonitor(user_id, monitor_type) ==
    /\ IF monitor_type = "all"
       THEN UNCHANGED <<profActive, profEnabled>>
       ELSE LET monitors == [profEnabled[user_id] EXCEPT ![monitor_type] = FALSE]
                any_enabled == \E mt \in MonitorKinds : monitors[mt]
            IN  /\ profEnabled' = [profEnabled EXCEPT ![user_id] = monitors]
                /\ profActive' = [profActive EXCEPT ![user_id] = any_enabled]
    /\ disableReq' = [disableReq EXCEPT ![user_id] =
                        @ \cup (IF monitor_type = "all" THEN MonitorKinds
                                                        ELSE {monitor_type})]
    /\ disableReq'[user_id] # disableReq[user_id]
    /\ UNCHANGED <<now, spc, wakeAt, gatherStart, active, high_frequency_mode,
                   next_check_time, last_detection, running, enqueued, scanLog>>

InitDisable ==
    /\ RestInit
    /\ now \in (SchedEnd - FaultRun) .. (SchedEnd - FaultRun + LowFreqSleep - 1)
    /\ CacheInit
    /\ SchedInit
    /\ CrossInit
    /\ TradeInit

SchedRest == UNCHANGED <<cacheVars, crossVars, tradeVars, restVars>>

NextDisable ==
    \/ LoopTop /\ SchedRest
    \/ Scan /\ SchedRest
    \/ \E k \in running : DetectionDone(k) /\ SchedRest
    \/ SchedTick /\ SchedRest
    \/ \E mt \in DisableChoices :
          DisableMonitor(DisablingOwner, mt)
          /\ UNCHANGED <<cacheVars, crossVars, tradeVars, routerVars, gatewayVars,
                         priceVars, protectVars, faultVars, refreshVars, stopVars>>

SpecDisable == InitDisable /\ [][NextDisable]_vars

InitCross ==
    /\ RestInit
    /\ now = 0
    /\ CacheInit
    /\ SchedInit
    /\ CrossInit
    /\ TradeInit

NextCross ==
    \/ \E x \in XProcs, d \in KlineInputs :
          Check(x[1], x[2], d) /\ UNCHANGED <<now, cacheVars, schedVars, tradeVars, restVars>>
    \/ \E x \in XProcs : SendDone(x[1], x[2]) /\ UNCHANGED <<now, cacheVars, schedVars, tradeVars, restVars>>
    \/ \E x \in XProcs : SendFailed(x[1], x[2]) /\ UNCHANGED <<now, cacheVars, schedVars, tradeVars, restVars>>

SpecCross == InitCross /\ [][NextCross]_vars

\* signals are executed one at a time here, by one task
SerialTasks == {"t1"}

\* at start the owners hold any BTCUSDT position on the exchange (opened by
\* hand or by an earlier run) and none in ETHUSDT
InitTrade ==
    /\ RestInit
    /\ now = 0
    /\ CacheInit
    /\ SchedInit
    /\ CrossInit
    /\ exPos \in {f \in [Users -> [Symbols -> Sides \cup {None}]] :
                    \A u \in Users : f[u]["ETHUSDT"] = None}
    /\ positions = <<>>
    /\ posWriter = None
    /\ system_positions = [u \in Users |-> <<>>]
    /\ tpc = [t \in Tasks |-> "idle"]
    /\ tuser = [t \in Tasks |-> "u1"]
    /\ tsym = [t \in Tasks |-> "BTCUSDT"]
    /\ tsig = [t \in Tasks |-> "golden"]
    /\ tclose = [t \in Tasks |-> NoClose]
    /\ ttrace = [t \in Tasks |-> <<>>]
    /\ ntrades = 0

TradeFrame == UNCHANGED <<now, cacheVars, schedVars, crossVars, restVars>>

NextTrade ==
    \/ \E t \in SerialTasks, u \in Users, sym \in Symbols, m \in MarketTypes, sig \in Signals :
          ExecuteTrade(t, u, sym, m, sig) /\ TradeFrame
    \/ \E t \in SerialTasks, o \in Outcomes : EtRefresh(t, o) /\ TradeFrame
    \/ \E t \in SerialTasks, o \in Outcomes : CpRefresh(t, o) /\ TradeFrame
    \/ \E t \in SerialTasks, o \in Outcomes : CpOrder(t, o) /\ TradeFrame
    \/ \E t \in SerialTasks, b \in BOOLEAN : NotifyClose(t, b) /\ TradeFrame
    \/ \E t \in SerialTasks, o \in Outcomes : Lev(t, o) /\ TradeFrame
    \/ \E t \in SerialTasks, o \in Outcomes : Ticker(t, o) /\ TradeFrame
    \/ \E t \in SerialTasks, o \in Outcomes, a \in Sides \cup {None} :
          PoOrder(t, o, a) /\ TradeFrame
    \/ \E t \in SerialTasks, b \in BOOLEAN : NotifyFail(t, b) /\ TradeFrame
    \/ \E t \in SerialTasks, o \in Outcomes : EtRefresh2(t, o) /\ TradeFrame
    \/ \E t \in SerialTasks, b \in BOOLEAN : NotifyOk(t, b) /\ TradeFrame
    \/ \E t \in SerialTasks, o \in Outcomes : TsTicker(t, o) /\ TradeFrame
    \/ \E t \in SerialTasks, o \in Outcomes : TpOrder(t, o) /\ TradeFrame
    \/ \E t \in SerialTasks, b \in BOOLEAN : TpNotify(t, b) /\ TradeFrame
    \/ \E t \in SerialTasks, o \in Outcomes : SlOrder(t, o) /\ TradeFrame
    \/ \E t \in SerialTasks, b \in BOOLEAN : SlNotify(t, b) /\ TradeFrame
    \/ \E t \in SerialTasks : Raised(t) /\ TradeFrame

SpecTrade == InitTrade /\ [][NextTrade]_vars

\* u1's auto-trade settings and credentials are anything the settings
\* dialogue can leave; u2 has set up macd trading of BTCUSDT but no API key;
\* the accounts are flat
InitRouter ==
    /\ FaultInit
    /\ RefreshInit
    /\ StopInit
    /\ ProfileInit
    /\ now = 0
    /\ CacheInit
    /\ SchedInit
    /\ CrossInit
    /\ TradeInit
    /\ GatewayInit
    /\ PriceInit
    /\ ProtectInit
    /\ auto_trading \in {f \in [Users -> [enabled : BOOLEAN,
                                          mode : TradeModes \cup {None},
                                          symbols : SUBSET Symbols]] :
                           f["u2"] = [enabled |-> TRUE, mode |-> "macd",
                                      symbols |-> {"BTCUSDT"}]}
    /\ binance_api \in {f \in [Users -> [key : ApiKeys, secret : ApiSecrets]] :
                          f["u2"] = [key |-> "", secret |-> "secret"]}
    /\ rpc = "idle"
    /\ rsig = NoSignal
    /\ rlog = <<>>
    /\ rdata = NoData
    /\ nsignals = 0

RouterFrame == UNCHANGED <<now, cacheVars, schedVars, crossVars, gatewayVars, priceVars,
                           protectVars, faultVars, refreshVars, stopVars, profileVars>>
\* a step of the execute_trade that handle_trading_signal awaits
InTrade == rpc = "trading" /\ UNCHANGED <<now, cacheVars, schedVars, crossVars, restVars>>

NextRouter ==
    \/ \E u \in Users, sym \in Symbols, m \in MarketTypes, sig \in Signals, k \in Indicators :
          HandleTradingSignal(u, sym, m, sig, k) /\ RouterFrame
    \/ \E d \in ConditionInputs : CheckMacdCondition(d) /\ RouterFrame
    \/ ExecuteTradeReturned /\ RouterFrame
    \/ \E o \in Outcomes : EtRefresh(RouterTask, o) /\ InTrade
    \/ \E o \in Outcomes : CpRefresh(RouterTask, o) /\ InTrade
    \/ \E o \in Outcomes : CpOrder(RouterTask, o) /\ InTrade
    \/ \E b \in BOOLEAN : NotifyClose(RouterTask, b) /\ InTrade
    \/ \E o \in Outcomes : Lev(RouterTask, o) /\ InTrade
    \/ \E o \in Outcomes : Ticker(RouterTask, o) /\ InTrade
    \/ \E o \in Outcomes, a \in Sides \cup {None} : PoOrder(RouterTask, o, a) /\ InTrade
    \/ \E b \in BOOLEAN : NotifyFail(RouterTask, b) /\ InTrade
    \/ \E o \in Outcomes : EtRefresh2(RouterTask, o) /\ InTrade
    \/ \E b \in BOOLEAN : NotifyOk(RouterTask, b) /\ InTrade
    \/ \E o \in Outcomes : TsTicker(RouterTask, o) /\ InTrade
    \/ \E o \in Outcomes : TpOrder(RouterTask, o) /\ InTrade
    \/ \E b \in BOOLEAN : TpNotify(RouterTask, b) /\ InTrade
    \/ \E o \in Outcomes : SlOrder(RouterTask, o) /\ InTrade
    \/ \E b \in BOOLEAN : SlNotify(RouterTask, b) /\ InTrade
    \/ Raised(RouterTask) /\ InTrade

SpecRouter == InitRouter /\ [][NextRouter]_vars

InitGateway ==
    /\ now = 0
    /\ CacheInit
    /\ SchedInit
    /\ CrossInit
    /\ TradeInit
    /\ RestInit

GatewayFrame == UNCHANGED <<now, cacheVars, schedVars, crossVars, tradeVars, routerVars,
                            priceVars, protectVars, faultVars, refreshVars, stopVars, profileVars>>

NextGateway ==
    \/ \E method \in Methods : BinanceApiRequest(method) /\ GatewayFrame
    \/ \E r \in Answers : Answer(r) /\ GatewayFrame
    \/ \E synced \in BOOLEAN, off \in Offsets : SyncReturn(synced, off) /\ GatewayFrame

SpecGateway == InitGateway /\ [][NextGateway]_vars

\* one check_price_change call on any of the arguments
InitPrice ==
    /\ FaultInit
    /\ RefreshInit
    /\ StopInit
    /\ ProfileInit
    /\ now = 0
    /\ CacheInit
    /\ SchedInit
    /\ CrossInit
    /\ TradeInit
    /\ RouterInit
    /\ GatewayInit
    /\ ProtectInit
    /\ pcArgs \in PriceArgs
    /\ pcDone = FALSE
    /\ pcNotified = FALSE
    /\ pcLogged = None

NextPrice ==
    \/ \E delivered \in BOOLEAN :
          CheckPriceChange(delivered)
          /\ UNCHANGED <<now, cacheVars, schedVars, crossVars, tradeVars, routerVars,
                         gatewayVars, protectVars, faultVars, refreshVars, stopVars, profileVars>>

SpecPrice == InitPrice /\ [][NextPrice]_vars

\* one set_tp_sl call on any of the arguments
InitProtect ==
    /\ FaultInit
    /\ RefreshInit
    /\ StopInit
    /\ ProfileInit
    /\ now = 0
    /\ CacheInit
    /\ SchedInit
    /\ CrossInit
    /\ TradeInit
    /\ RouterInit
    /\ GatewayInit
    /\ PriceInit
    /\ tsArgs \in ProtectArgs
    /\ tsStage = "start"
    /\ tsTrig = NoTrig @@ [price |-> 0]
    /\ tsOrders = <<>>

ProtectFrame == UNCHANGED <<now, cacheVars, schedVars, crossVars, tradeVars, routerVars,
                            gatewayVars, priceVars, faultVars, refreshVars, stopVars, profileVars>>

NextProtect ==
    \/ \E p \in TickerPrices : TsCompute(p) /\ ProtectFrame
    \/ TsSubmit /\ ProtectFrame

SpecProtect == InitProtect /\ [][NextProtect]_vars

\* a scheduler run of FaultRun seconds in which exceptions are raised
InitFaults ==
    /\ RestInit
    /\ now \in (SchedEnd - FaultRun) .. (SchedEnd - FaultRun + LowFreqSleep - 1)
    /\ CacheInit
    /\ SchedInit
    /\ CrossInit
    /\ TradeInit

FaultFrame == UNCHANGED <<cacheVars, crossVars, tradeVars, routerVars, gatewayVars,
                          priceVars, protectVars, refreshVars, stopVars, profileVars>>

NextFaults ==
    \/ LoopTop /\ FaultFrame /\ UNCHANGED faultVars
    \/ \E fault \in FaultChoices : FaultyScan(fault) /\ FaultFrame
    \/ ScanFailed /\ FaultFrame
    \/ Recovered /\ FaultFrame
    \/ \E k \in running, raised \in BOOLEAN : DetectionEnds(k, raised) /\ FaultFrame
    \/ SchedTick /\ FaultFrame /\ UNCHANGED faultVars

SpecFaults == InitFaults /\ [][NextFaults]_vars

\* a scheduler run that stop_monitor ends at any moment. The sleeps return,
\* the detections end and the awaiting stop_monitor is resumed: the event
\* loop runs every coroutine that is ready.
StopFrame == UNCHANGED <<cacheVars, crossVars, tradeVars, routerVars, gatewayVars,
                         priceVars, protectVars, refreshVars, profileVars>>

NextStop ==
    \/ LoopTop /\ StopFrame /\ UNCHANGED <<faultVars, stopVars, profileVars>>
    \/ FaultyScan(NoFaults) /\ StopFrame /\ UNCHANGED stopVars
    \/ ScanFailed /\ StopFrame /\ UNCHANGED stopVars
    \/ Recovered /\ StopFrame /\ UNCHANGED stopVars
    \/ \E k \in running : DetectionEnds(k, FALSE) /\ StopFrame /\ UNCHANGED stopVars
    \/ StopMonitor /\ StopFrame
    \/ StopReturned /\ StopFrame
    \/ StopTick /\ StopFrame

SpecStop ==
    /\ InitFaults
    /\ [][NextStop]_vars
    /\ WF_vars(LoopTop /\ StopFrame /\ UNCHANGED <<faultVars, stopVars, profileVars>>)
    /\ WF_vars(FaultyScan(NoFaults) /\ StopFrame /\ UNCHANGED stopVars)
    /\ WF_vars(Recovered /\ StopFrame /\ UNCHANGED stopVars)
    /\ WF_vars(\E k \in running : DetectionEnds(k, FALSE) /\ StopFrame /\ UNCHANGED stopVars)
    /\ WF_vars(StopReturned /\ StopFrame)
    /\ WF_vars(StopTick /\ StopFrame)

\* one update_positions call on any earlier map and any answer
InitPositions ==
    /\ now = 0
    /\ CacheInit
    /\ SchedInit
    /\ CrossInit
    /\ TradeInit
    /\ RouterInit
    /\ GatewayInit
    /\ PriceInit
    /\ ProtectInit
    /\ FaultInit
    /\ StopInit
    /\ ProfileInit
    /\ upArgs \in [before : EarlierMaps, response : RiskAnswers]
    /\ upPositions = upArgs.before
    /\ upReturn = None

NextPositions ==
    \/ UpdatePositions /\ UNCHANGED <<now, cacheVars, schedVars, crossVars, tradeVars, routerVars,
                                      gatewayVars, priceVars, protectVars, faultVars,
                                      stopVars, profileVars>>

SpecPositions == InitPositions /\ [][NextPositions]_vars

\* one watch tuple from detection to the protective orders: u1 trades BTCUSDT
\* in mode macd or mamacd, flat or SHORT at start; the checks of the tuple
\* follow one another as the passes of run() do
LifeKey == CrossKey("u1", "BTCUSDT", "contract")

\* kline data too short for either indicator, without a crossing, with a
\* golden and with a dead crossing
LifeInputs ==
    {d \in KlineInputs :
        \/ d.rows = 29 /\ d.prevB = 0
        \/ d.rows = 100 /\ d.prevA # d.prevB /\ d.curA = d.prevB /\ d.curB = d.prevA
        \/ d.rows = 100 /\ d.prevA = 0 /\ d.prevB = 0 /\ d.curA = 0 /\ d.curB = 0}

\* the data check_macd_condition is given: too short, MACD above its signal
\* line, or not
LifeConditions == {d \in ConditionInputs : d.rows = 49 \/ (d.rows = 100 /\ d.curA = 1)}

InitLife ==
    /\ now = 0
    /\ CacheInit
    /\ SchedInit
    /\ CrossInit
    /\ GatewayInit
    /\ PriceInit
    /\ ProtectInit
    /\ FaultInit
    /\ RefreshInit
    /\ StopInit
    /\ ProfileInit
    /\ exPos \in {f \in [Users -> [Symbols -> Sides \cup {None}]] :
                    /\ \A sym \in Symbols : f["u2"][sym] = None
                    /\ f["u1"]["ETHUSDT"] = None
                    /\ f["u1"]["BTCUSDT"] # "LONG"}
    /\ positions = <<>>
    /\ posWriter = None
    /\ system_positions = [u \in Users |-> <<>>]
    /\ tpc = [t \in Tasks |-> "idle"]
    /\ tuser = [t \in Tasks |-> "u1"]
    /\ tsym = [t \in Tasks |-> "BTCUSDT"]
    /\ tsig = [t \in Tasks |-> "golden"]
    /\ tclose = [t \in Tasks |-> NoClose]
    /\ ttrace = [t \in Tasks |-> <<>>]
    /\ ntrades = 0
    /\ auto_trading \in {f \in [Users -> [enabled : {TRUE}, mode : TradeModes,
                                          symbols : {{"BTCUSDT"}}]] :
                           f["u2"].mode = "macd" /\ f["u1"].mode # "ma"}
    /\ binance_api = [u \in Users |->
                        IF u = "u1" THEN [key |-> "key", secret |-> "secret"]
                        ELSE [key |-> "", secret |-> "secret"]]
    /\ rpc = "idle"
    /\ rsig = NoSignal
    /\ rlog = <<>>
    /\ rdata = NoData
    /\ nsignals = 0

CrossFrame == UNCHANGED <<now, cacheVars, schedVars, tradeVars, restVars>>
LifeFrame == UNCHANGED <<now, cacheVars, schedVars, gatewayVars, priceVars, protectVars,
                         faultVars, refreshVars, stopVars, profileVars>>
InLife == InTrade /\ UNCHANGED crossVars

NextLife ==
    \/ \E ind \in Indicators, d \in LifeInputs :
          /\ rpc = "idle" /\ \A x \in XProcs : xpc[x] = "idle"
          /\ Check(ind, LifeKey, d) /\ CrossFrame
    \/ \E ind \in Indicators : SendFailed(ind, LifeKey) /\ CrossFrame
    \/ \E ind \in Indicators : Forward(ind, LifeKey) /\ LifeFrame
    \/ \E d \in LifeConditions : CheckMacdCondition(d) /\ RouterFrame
    \/ ExecuteTradeReturned /\ RouterFrame
    \/ \E o \in Outcomes : EtRefresh(RouterTask, o) /\ InLife
    \/ \E o \in Outcomes : CpRefresh(RouterTask, o) /\ InLife
    \/ \E o \in Outcomes : CpOrder(RouterTask, o) /\ InLife
    \/ \E b \in BOOLEAN : NotifyClose(RouterTask, b) /\ InLife
    \/ \E o \in Outcomes : Lev(RouterTask, o) /\ InLife
    \/ \E o \in Outcomes : Ticker(RouterTask, o) /\ InLife
    \/ \E o \in Outcomes, a \in Sides \cup {None} : PoOrder(RouterTask, o, a) /\ InLife
    \/ \E b \in BOOLEAN : NotifyFail(RouterTask, b) /\ InLife
    \/ \E o \in Outcomes : EtRefresh2(RouterTask, o) /\ InLife
    \/ \E b \in BOOLEAN : NotifyOk(RouterTask, b) /\ InLife
    \/ \E o \in Outcomes : TsTicker(RouterTask, o) /\ InLife
    \/ \E o \in Outcomes : TpOrder(RouterTask, o) /\ InLife
    \/ \E b \in BOOLEAN : TpNotify(RouterTask, b) /\ InLife
    \/ \E o \in Outcomes : SlOrder(RouterTask, o) /\ InLife
    \/ \E b \in BOOLEAN : SlNotify(RouterTask, b) /\ InLife
    \/ Raised(RouterTask) /\ InLife

SpecLife == InitLife /\ [][NextLife]_vars

(***************************************************************************)
(* One scheduling pass with the MACD and the MA detection of one owner and *)
(* symbol gathered together, each forwarding its signal through its own    *)
(* handle_trading_signal, while button_callback edits the profile.         *)
(***************************************************************************)

\* the execute_trade coroutine of the detection of each monitor kind
TaskOf(ind) == IF ind = "macd" THEN "t1" ELSE "t2"

\* crossings only; the answers of the exchange are "ok" or an error dict
PassInputs == {d \in LifeInputs : d.rows = 100 /\ d.prevA # d.prevB}
PassOutcomes == {"ok", "error"}

\* button_callback, `set_trade_mode:<mode>`: load, set the mode, save
SetTradeMode(user_id, mode) ==
    /\ auto_trading[user_id].mode # mode
    /\ auto_trading' = [auto_trading EXCEPT ![user_id].mode = mode]
    /\ UNCHANGED <<binance_api, rpc, rsig, rlog, rdata, nsignals>>

\* the scan enqueues each (owner, symbol, market, monitor) entry once per
\* period: the detection of a kind is not started twice in the pass
PassCheck(ind, key, d) ==
    /\ fired[<<ind, key>>] = <<>>
    /\ nchecks = 0 \/ (nchecks = 1 /\ lastCheck.ind # ind)
    /\ Check(ind, key, d)

\* check_macd / check_ma_cross after send_message returned: the state is
\* stored, handle_trading_signal loads the profile and runs to its first
\* await (check_macd_condition, or the first await of execute_trade)
PassForward(ind, key) ==
    LET x == <<ind, key>>
        st == IF ind = "macd" THEN macd_cross_state ELSE ma_cross_state
        upd == [k \in DOMAIN st \cup {key} |-> IF k = key THEN xcur[x] ELSE st[k]]
        at == auto_trading[key[1]]
        route == IF Eligible(at, binance_api[key[1]], key[2])
                 THEN Dispatch(at.mode, ind)
                 ELSE "return"
    IN  /\ xpc[x] = "sending"
        /\ fired' = [fired EXCEPT ![x] = Append(@, xcur[x])]
        /\ forwarded' = [forwarded EXCEPT ![x] = Append(@, xcur[x])]
        /\ IF ind = "macd"
           THEN macd_cross_state' = upd /\ UNCHANGED ma_cross_state
           ELSE ma_cross_state' = upd /\ UNCHANGED macd_cross_state
        /\ CASE route = "execute_trade" ->
                  /\ ExecuteTrade(TaskOf(ind), key[1], key[2], key[3], xcur[x])
                  /\ xpc' = [xpc EXCEPT ![x] = "trading"]
             [] route = "check_macd_condition" ->
                  /\ xpc' = [xpc EXCEPT ![x] = "macd_cond"]
                  /\ UNCHANGED tradeVars
             [] OTHER ->
                  /\ xpc' = [xpc EXCEPT ![x] = "idle"]
                  /\ UNCHANGED tradeVars
        /\ UNCHANGED <<xcur, lastCheck, nchecks>>

\* check_macd_condition returned to the handle_trading_signal of the detection
PassCondition(ind, key, d) ==
    LET x == <<ind, key>>
    IN  /\ xpc[x] = "macd_cond"
        /\ IF MacdCondition(d)
           THEN /\ ExecuteTrade(TaskOf(ind), key[1], key[2], key[3], xcur[x])
                /\ xpc' = [xpc EXCEPT ![x] = "trading"]
           ELSE /\ xpc' = [xpc EXCEPT ![x] = "idle"]
                /\ UNCHANGED tradeVars
        /\ UNCHANGED <<macd_cross_state, ma_cross_state, xcur, fired, forwarded,
                       lastCheck, nchecks>>

\* execute_trade returned to handle_trading_signal, and that to the check
PassTradeReturned(ind, key) ==
    LET x == <<ind, key>>
    IN  /\ xpc[x] = "trading"
        /\ tpc[TaskOf(ind)] = "done"
        /\ xpc' = [xpc EXCEPT ![x] = "idle"]
        /\ UNCHANGED <<macd_cross_state, ma_cross_state, xcur, fired, forwarded,
                       lastCheck, nchecks, tradeVars>>

InitPass ==
    /\ now = 0
    /\ CacheInit
    /\ SchedInit
    /\ CrossInit
    /\ TradeInit
    /\ GatewayInit
    /\ PriceInit
    /\ ProtectInit
    /\ FaultInit
    /\ RefreshInit
    /\ StopInit
    /\ ProfileInit
    /\ auto_trading \in {f \in [Users -> [enabled : {TRUE}, mode : TradeModes,
                                          symbols : {{"BTCUSDT"}}]] :
                           f["u2"].mode = "macd"}
    /\ binance_api = [u \in Users |-> [key |-> "key", secret |-> "secret"]]
    /\ rpc = "idle"
    /\ rsig = NoSignal
    /\ rlog = <<>>
    /\ rdata = NoData
    /\ nsignals = 0

PassFrame == UNCHANGED <<now, cacheVars, schedVars, gatewayVars, priceVars, protectVars,
                         faultVars, refreshVars, stopVars, profileVars>>
PassRouterFrame == UNCHANGED <<auto_trading, binance_api, rpc, rsig, rlog, rdata, nsignals>>
InPass == TradeFrame

NextPass ==
    \/ \E ind \in Indicators, d \in PassInputs : PassCheck(ind, LifeKey, d) /\ CrossFrame
    \/ \E ind \in Indicators : SendFailed(ind, LifeKey) /\ CrossFrame
    \/ \E ind \in Indicators : PassForward(ind, LifeKey) /\ PassRouterFrame /\ PassFrame
    \/ \E ind \in Indicators, d \in LifeConditions :
          PassCondition(ind, LifeKey, d) /\ PassRouterFrame /\ PassFrame
    \/ \E ind \in Indicators : PassTradeReturned(ind, LifeKey) /\ PassRouterFrame /\ PassFrame
    \/ \E m \in TradeModes :
          SetTradeMode("u1", m) /\ UNCHANGED <<crossVars, tradeVars>> /\ PassFrame
    \/ \E t \in Tasks, o \in PassOutcomes : EtRefresh(t, o) /\ InPass
    \/ \E t \in Tasks, o \in PassOutcomes : CpRefresh(t, o) /\ InPass
    \/ \E t \in Tasks, o \in PassOutcomes : CpOrder(t, o) /\ InPass
    \/ \E t \in Tasks : NotifyClose(t, TRUE) /\ InPass
    \/ \E t \in Tasks, o \in PassOutcomes : Lev(t, o) /\ InPass
    \/ \E t \in Tasks, o \in PassOutcomes : Ticker(t, o) /\ InPass
    \/ \E t \in Tasks, o \in PassOutcomes, a \in Sides \cup {None} : PoOrder(t, o, a) /\ InPass
    \/ \E t \in Tasks : NotifyFail(t, TRUE) /\ InPass
    \/ \E t \in Tasks, o \in PassOutcomes : EtRefresh2(t, o) /\ InPass
    \/ \E t \in Tasks : NotifyOk(t, TRUE) /\ InPass
    \/ \E t \in Tasks, o \in PassOutcomes : TsTicker(t, o) /\ InPass
    \/ \E t \in Tasks, o \in PassOutcomes : TpOrder(t, o) /\ InPass
    \/ \E t \in Tasks : TpNotify(t, TRUE) /\ InPass
    \/ \E t \in Tasks, o \in PassOutcomes : SlOrder(t, o) /\ InPass
    \/ \E t \in Tasks : SlNotify(t, TRUE) /\ InPass
    \/ \E t \in Tasks : Raised(t) /\ InPass

SpecPass == InitPass /\ [][NextPass]_vars

\* =========================================================================
\* claims
\* =========================================================================

\* C1: N >= 2 concurrent get_kline callers with the same key and no fresh
\* cache entry cause exactly one upstream call and all receive the identical
\* result (success or failure).
C1_Coalesced ==
    \A c \in Callers : \A d \in cconc[c] :
        (cpc[c] = "returned" /\ cpc[d] = "returned" /\ ckey[c] = ckey[d]
           /\ (cfetched[c] \/ cfetched[d]))
        => /\ ~(cfetched[c] /\ cfetched[d])
           /\ cresult[c] = cresult[d]

\* C2: for every enabled watch entry of an active owner, every candle
\* boundary B is detected: a pass runs at some t with 0 <= B - t <= 10 and
\* enqueues (and marks) the entry's detection for B, so once B has passed its
\* detection key is marked.
C2_NoCloseMissed ==
    \A x \in AllEntries :
        LET i == IntervalSeconds(IntervalStr(EntryOf(x)))
            B == (now \div i) * i
        IN  (Scanned(x) /\ B > SchedStart + LowFreqSleep + WindowSeconds)
            => DetectionKey(x[1], EntryOf(x), B) \in last_detection

\* C8: at most one detection task is ever created for one detection key; a
\* due key that is already marked is skipped, an unmarked due key is marked and
\* enqueued exactly once.
C8_OneDetectionPerKey ==
    /\ \A k \in DOMAIN enqueued : enqueued[k] = 1
    /\ DOMAIN enqueued = last_detection
    /\ \A x \in AllEntries :
          scanLog[x].due =>
             /\ DetectionKey(x[1], EntryOf(x), scanLog[x].next_end) \in last_detection
             /\ enqueued[DetectionKey(x[1], EntryOf(x), scanLog[x].next_end)] = 1

\* a later pass found a marked key due again and skipped it
C8_Witness ==
    \E x \in AllEntries :
        /\ scanLog[x].due
        /\ scanLog[x].skipped
        /\ enqueued[DetectionKey(x[1], EntryOf(x), scanLog[x].next_end)] = 1

OpensSide(order_side) == IF order_side = "BUY" THEN "LONG" ELSE "SHORT"

HasLater(tr, i, evs) == \E j \in (i + 1) .. Len(tr) : tr[j].ev \in evs
HasEarlier(tr, i, evs) == \E j \in 1 .. (i - 1) : tr[j].ev \in evs

\* C3: when the exchange reports a position opposite to the signal, the
\* reduce-only close is issued before any opening order, and when the close
\* returns an error no opening order is issued for that signal.
C3_CloseBeforeOpen ==
    \A t \in Tasks :
        LET tr == ttrace[t]
        IN  /\ tpc[t] \in {"cp_refresh", "cp_order", "notify_close"}
               => \A j \in 1 .. Len(tr) : tr[j].ev # "open_order"
            /\ \A i \in 1 .. Len(tr) :
                 /\ tr[i].ev = "close_order"
                    => /\ ~HasEarlier(tr, i, {"open_order", "leverage"})
                       /\ tr[i].res # "ok" => ~HasLater(tr, i, {"open_order", "leverage"})
                 /\ tr[i].ev = "notify_close_failed"
                    => \A j \in 1 .. Len(tr) : tr[j].ev \notin {"open_order", "leverage"}

\* a LONG position, a dead signal: the SELL close was rejected, the owner was
\* told, and the invocation ended without an opening order
C3_Witness ==
    \E t \in Tasks :
        /\ tpc[t] = "done"
        /\ tsig[t] = "dead"
        /\ Len(ttrace[t]) = 2
        /\ ttrace[t][1].ev = "close_order"
        /\ ttrace[t][1].res = "error"
        /\ ttrace[t][1].side = "SELL"
        /\ ttrace[t][1].ex = "LONG"
        /\ ttrace[t][2] = Event("notify_close_failed", "sent")

\* C4: when the opposite position's close succeeds, the new entry is then
\* attempted in the same execute_trade invocation: the invocation does not end
\* without place_market_order having been started after the close.
C4_OpenAfterClose ==
    \A t \in Tasks :
        LET tr == ttrace[t]
        IN  tpc[t] = "done" =>
              \A i \in 1 .. Len(tr) :
                 (tr[i].ev = "close_order" /\ tr[i].res = "ok")
                 => HasLater(tr, i, {"open_order", "leverage"})

\* C5: no opening order is submitted for one side of a symbol while the
\* owner's exchange position on that symbol is on the opposite side.
C5_NoOppositeEntry ==
    \A t \in Tasks :
        \A i \in 1 .. Len(ttrace[t]) :
            ttrace[t][i].ev = "open_order"
            => ttrace[t][i].ex \in {None, OpensSide(ttrace[t][i].side)}

\* C10: every failed trade step (reversal close, entry order, take-profit or
\* stop-loss order: error result or no result) is followed by a notification
\* of that failure to the owner before the invocation ends.
C10_FailuresSurfaced ==
    \A t \in Tasks :
        LET tr == ttrace[t]
            told(i, ev, note) ==
                (tr[i].ev = ev /\ tr[i].res # "ok") => HasLater(tr, i, {note})
        IN  tpc[t] = "done" =>
              \A i \in 1 .. Len(tr) :
                 /\ told(i, "close_order", "notify_close_failed")
                 /\ told(i, "open_order", "notify_trade_failed")
                 /\ told(i, "tp_order", "notify_tp_failed")
                 /\ told(i, "sl_order", "notify_sl_failed")

\* C6: a crossing yields exactly one emission; once direction d has fired for
\* a key, a check whose data evaluates to no crossing or to d again sends no
\* notification, forwards no signal to the router and leaves the state at d.
C6_ExactlyOnce ==
    [][\A x \in XProcs :
         LET d == LastState(x[1], x[2])
             checked == /\ lastCheck'.n # lastCheck.n
                        /\ lastCheck'.ind = x[1]
                        /\ lastCheck'.key = x[2]
         IN  /\ (checked /\ d # None /\ lastCheck'.eval \in {None, d})
                => /\ xpc'[x] = "idle"
                   /\ fired'[x] = fired[x]
                   /\ forwarded'[x] = forwarded[x]
                   /\ LastState(x[1], x[2])' = d
             /\ (checked /\ lastCheck'.eval \notin {None, d})
                => /\ xpc'[x] = "sending"
                   /\ xcur'[x] = lastCheck'.eval
             /\ (xpc[x] = "sending" /\ xpc'[x] = "idle")
                => \/ /\ fired'[x] = Append(fired[x], xcur[x])
                      /\ forwarded'[x] = Append(forwarded[x], xcur[x])
                      /\ LastState(x[1], x[2])' = xcur[x]
                   \/ /\ fired'[x] = fired[x]
                      /\ forwarded'[x] = forwarded[x]
                      /\ LastState(x[1], x[2])' = d
             /\ (xpc[x] = xpc'[x] /\ ~checked)
                => /\ fired'[x] = fired[x]
                   /\ LastState(x[1], x[2])' = d
      ]_vars

\* golden fired once for a key, and a later check of that key whose data
\* shows a golden crossing again fired nothing
C6_Witness ==
    \E x \in XProcs :
        /\ lastCheck.n > 0
        /\ lastCheck.ind = x[1]
        /\ lastCheck.key = x[2]
        /\ lastCheck.before = "golden"
        /\ lastCheck.eval = "golden"
        /\ fired[x] = <<"golden">>
        /\ forwarded[x] = <<"golden">>
        /\ xpc[x] = "idle"

\* C7: the engine evaluates golden exactly when previousA <= previousB and
\* currentA > currentB, dead exactly when previousA >= previousB and
\* currentA < currentB, and no transition in every other case.
C7_TransitionRule ==
    (lastCheck.n > 0 /\ lastCheck.data.rows >= MinRows(lastCheck.ind)) =>
        LET d == lastCheck.data
        IN  /\ lastCheck.eval = "golden" <=> (d.prevA <= d.prevB /\ d.curA > d.curB)
            /\ lastCheck.eval = "dead" <=> (d.prevA >= d.prevB /\ d.curA < d.curB)
            /\ lastCheck.eval \in {"golden", "dead", None}

\* C11: a failed upstream fetch is not cached: a get_kline call that finds a
\* stored failure result (None) for its key never returns it, even within 5
\* seconds; it goes on to a new upstream call.
C11_FailureNotCached ==
    [][\A c \in Callers :
          (/\ cpc[c] = "idle"
           /\ cpc'[c] # "idle"
           /\ ckey'[c] \in DOMAIN data_cache
           /\ data_cache[ckey'[c]].data = None)
          => cpc'[c] # "returned"]_vars

\* C12: cache freshness: a get_kline call for key K made up to 4 s after the
\* call time t of the successful get_kline whose payload is stored returns
\* that payload without an upstream call; a call made 6 s or more after t
\* starts a new upstream fetch (at once, or as soon as it is given the lock).
C12_Freshness ==
    [][\A c \in Callers :
          /\ (/\ cpc[c] = "idle"
              /\ cpc'[c] # "idle"
              /\ ckey'[c] \in DOMAIN data_cache
              /\ data_cache[ckey'[c]].data \in Payloads)
             => LET k == ckey'[c]
                    e == data_cache[k]
                IN  /\ (now - e.ts <= 4) =>
                          /\ cpc'[c] = "returned"
                          /\ cresult'[c] = e.data
                          /\ upstream' = upstream
                    /\ (now - e.ts >= 6) =>
                          /\ cpc'[c] \in {"fetching", "wait_lock"}
                          /\ (cpc'[c] = "fetching") => (upstream'[k] = upstream[k] + 1)
          /\ (cpc[c] = "wait_lock" /\ cpc'[c] # "wait_lock")
             => /\ cpc'[c] = "fetching"
                /\ upstream'[ckey[c]] = upstream[ckey[c]] + 1]_vars

\* a call at t fetched a payload, a call at t + 4 got the same payload from the
\* cache, and a call at t + 6 fetched again
C12_Witness ==
    \E c1, c2, c3 \in Callers :
        /\ cpc[c1] = "returned" /\ cpc[c2] = "returned" /\ cpc[c3] = "returned"
        /\ ckey[c1] = ckey[c2] /\ ckey[c2] = ckey[c3]
        /\ cfetched[c1] /\ cresult[c1] \in Payloads
        /\ ~cfetched[c2] /\ ctime[c2] = ctime[c1] + 4 /\ cresult[c2] = cresult[c1]
        /\ cfetched[c3] /\ ctime[c3] = ctime[c1] + 6
        /\ upstream[ckey[c1]] = 2

\* C20: while the upstream fetch for key K1 is in flight, a get_kline caller
\* for another key K2 is not blocked by it (it is never left waiting for the
\* lock that K1's fetcher holds).
C20_UnrelatedKeyNotBlocked ==
    \A c \in Callers :
        cpc[c] = "wait_lock"
        => ~(\E d \in Callers : /\ lock = d
                                /\ cpc[d] = "fetching"
                                /\ ckey[d] # ckey[c])


LedgerLen(sp, u, sym) == IF sym \in DOMAIN sp[u] THEN Len(sp[u][sym]) ELSE 0

C14_LegsIndependent ==
    \A t \in Tasks :
        LET tr == ttrace[t]
            cfg == ConfigOf(tuser[t], tsym[t])
        IN  (tpc[t] = "done" /\ cfg.tp > 0 /\ cfg.sl > 0)
            => \A i \in 1 .. Len(tr) :
                  /\ (tr[i].ev = "tp_order") => HasLater(tr, i, {"sl_order"})
                  /\ (tr[i].ev = "open_order" /\ tr[i].res = "ok")
                        => ~HasLater(tr, i, {"close_order"})


\* the preconditions of the claim, read from the profile of the owner of the
\* signal being handled
SignalPreconditions ==
    /\ rsig # NoSignal
    /\ auto_trading[rsig.user_id].enabled
    /\ binance_api[rsig.user_id].key # ""
    /\ binance_api[rsig.user_id].secret # ""
    /\ auto_trading[rsig.user_id].mode # None
    /\ rsig.symbol \in auto_trading[rsig.user_id].symbols

\* C15: handle_trading_signal makes no call (no kline request, no
\* execute_trade) and nothing of the trading state changes (no refresh, no
\* order, no ledger write) for a signal unless its owner has auto-trading
\* enabled, both credentials non-empty, a mode set and the symbol in the
\* auto-trade list.
C15_NoRequestUnlessConfigured ==
    [][(rlog' # <<>> \/ tradeVars' # tradeVars) => SignalPreconditions']_vars

\* u1 traded on a first signal; a second signal, for a symbol missing from
\* u1's auto-trade list (everything else configured), was dropped
C15_Witness ==
    /\ nsignals = 2
    /\ ntrades = 1
    /\ rpc = "idle"
    /\ rlog = <<>>
    /\ rsig.user_id = "u1"
    /\ auto_trading["u1"].enabled
    /\ binance_api["u1"].key # "" /\ binance_api["u1"].secret # ""
    /\ auto_trading["u1"].mode # None
    /\ rsig.symbol \notin auto_trading["u1"].symbols
    /\ \E i \in 1 .. Len(ttrace[RouterTask]) : ttrace[RouterTask][i].ev = "open_order"

\* the (mode, monitor kind) combinations that may reach execute_trade, with
\* the calls each makes
DispatchAllowed ==
    /\ rsig # NoSignal
    /\ LET mode == auto_trading[rsig.user_id].mode
           kind == rsig.monitor_type
       IN  \/ mode = "ma" /\ kind = "ma" /\ rlog = <<"execute_trade">>
           \/ mode = "macd" /\ kind = "macd" /\ rlog = <<"execute_trade">>
           \/ /\ mode = "mamacd" /\ kind = "ma"
              /\ rlog = <<"check_macd_condition", "execute_trade">>
              /\ rdata.rows >= 50
              /\ rdata.curA > rdata.curB

\* C16: execute_trade is reached, and the trading state changes, only for an
\* `ma` signal in ma mode, a `macd` signal in macd mode, or an `ma` signal in
\* the combined mode after check_macd_condition, evaluated for this signal,
\* found the MACD line above its signal line.
C16_ModeDispatch ==
    [][((\E i \in 1 .. Len(rlog') : rlog'[i] = "execute_trade") \/ tradeVars' # tradeVars)
          => DispatchAllowed']_vars

\* a combined-mode owner's `ma` signal was confirmed by the MACD condition and
\* its entry order was placed
C16_Witness ==
    /\ rsig # NoSignal
    /\ auto_trading[rsig.user_id].mode = "mamacd"
    /\ rsig.monitor_type = "ma"
    /\ rlog = <<"check_macd_condition", "execute_trade">>
    /\ rdata.curA > rdata.curB
    /\ \E i \in 1 .. Len(ttrace[RouterTask]) :
          ttrace[RouterTask][i].ev = "open_order" /\ ttrace[RouterTask][i].res = "ok"


\* C17: one binance_api_request call resynchronises the clock at most once
\* and sends at most two requests, the second only after the resync; the
\* answer to the second request ends the call, and a timestamp error on it is
\* returned to the caller as it is.
C17_RetryBounded ==
    /\ gsent <= 2
    /\ gsyncs <= 1
    /\ (gsent = 2) => (gsyncs = 1)
    /\ (gpc = "syncing") => (gsent = 1)
    /\ (gpc = "sent" /\ gsent = 2) => ~gretry
    /\ (gpc = "done" /\ gsent = 2 /\ glast.kind = "error") => (gresult = glast)

\* a call whose retry was answered with a timestamp error again has returned
\* that error
C17_Witness ==
    /\ gpc = "done"
    /\ gsent = 2
    /\ gsyncs = 1
    /\ glast.kind = "error"
    /\ glast.code \in TimeErrorCodes
    /\ gresult = glast


\* C18: check_price_change on two candles sends the alert exactly when
\* |(currentClose - previousClose) / previousClose * 100| > threshold, with
\* the entry's threshold: threshold 3 and previous close 100 fire at a current
\* close of 104 and not at 102.
C18_PriceAlert ==
    (pcDone /\ pcArgs.rows = 2 /\ pcArgs.has_threshold)
    => /\ pcNotified
          <=> (Abs(pcArgs.current_close - pcArgs.prev_close) * 100
                  > pcArgs.threshold * pcArgs.prev_close
               /\ pcLogged = None)
       /\ (pcArgs.threshold = 3 /\ pcArgs.prev_close = 100 /\ pcArgs.current_close = 104
             /\ pcLogged # "send_message") => pcNotified
       /\ (pcArgs.threshold = 3 /\ pcArgs.prev_close = 100 /\ pcArgs.current_close = 102)
             => ~pcNotified

\* the stop price of the submitted leg of the given type, 0 when not submitted
StopPriceOf(type) ==
    IF \E i \in 1 .. Len(tsOrders) : tsOrders[i].type = type
    THEN (CHOOSE o \in {tsOrders[i] : i \in 1 .. Len(tsOrders)} : o.type = type).stopPrice
    ELSE 0

\* C19: the take-profit trigger is price * (1 + tp/100) for LONG and
\* price * (1 - tp/100) for SHORT, the stop-loss trigger price * (1 - sl/100)
\* for LONG and price * (1 + sl/100) for SHORT, each rounded to 4 decimals
\* (the submitted stop price is within half a unit of 0.0001 of the exact
\* value); price 100, tp 5, sl 2, LONG gives 105.0000 and 98.0000.
C19_TriggerPrices ==
    (tsStage = "submitted")
    => LET P == tsTrig.price
           up(x) == P * (PerMille + x)
           down(x) == P * (PerMille - x)
           near(stop, exact) == 2 * Abs(stop * PerMille - exact) <= PerMille
       IN  /\ (tsArgs.tp > 0) =>
                near(StopPriceOf("TAKE_PROFIT_MARKET"),
                     IF tsArgs.side = "LONG" THEN up(tsArgs.tp) ELSE down(tsArgs.tp))
           /\ (tsArgs.sl > 0) =>
                near(StopPriceOf("STOP_MARKET"),
                     IF tsArgs.side = "LONG" THEN down(tsArgs.sl) ELSE up(tsArgs.sl))
           /\ (tsArgs.side = "LONG" /\ P = 1000000 /\ tsArgs.tp = 50 /\ tsArgs.sl = 20)
                => /\ StopPriceOf("TAKE_PROFIT_MARKET") = 1050000
                   /\ StopPriceOf("STOP_MARKET") = 980000

\* a SHORT entry at 123.4567 with tp 2.5 % and sl 1.5 % got both legs, the
\* take-profit below and the stop-loss above the price
C19_Witness ==
    /\ tsStage = "submitted"
    /\ tsArgs.side = "SHORT"
    /\ tsTrig.price = 1234567
    /\ tsArgs.tp = 25 /\ tsArgs.sl = 15
    /\ Len(tsOrders) = 2
    /\ StopPriceOf("TAKE_PROFIT_MARKET") < tsTrig.price
    /\ StopPriceOf("STOP_MARKET") > tsTrig.price


\* C21: at no time are two upstream fetches for the same cache key in
\* flight: two callers are never both the fetcher for one key.
C21_OneFetcherPerKey ==
    \A c, d \in Callers :
        (c # d /\ cpc[c] = "fetching" /\ cpc[d] = "fetching") => ckey[c] # ckey[d]

\* a second caller for the key being fetched is held back by the lock
C21_Witness ==
    \E c, d \in Callers :
        /\ c # d
        /\ cpc[c] = "fetching"
        /\ lock = c
        /\ cpc[d] = "wait_lock"
        /\ ckey[d] = ckey[c]


\* C23: a pass in low-frequency mode that finds a tuple newly due switches
\* to high-frequency mode with expiry (that tuple's next boundary) + 10, and
\* the mode is entered in no other way; the first loop iteration that starts
\* after the expiry reverts to low-frequency mode, so the mode never outlasts
\* its expiry by more than one sleep of 5 s and one round of detections.
C23_HighFrequencyMode ==
    [][LET newly == {x \in AllEntries :
                       /\ Scanned(x)
                       /\ EntryKey(x, now) \notin last_detection
                       /\ EntryKey(x, now) \in last_detection'}
       IN  /\ (~high_frequency_mode /\ newly # {})
              => /\ high_frequency_mode'
                 /\ \E x \in newly : next_check_time' = EntryNextEnd(x, now) + 10
           /\ (~high_frequency_mode /\ high_frequency_mode') => newly # {}
           /\ (spc = "loop_top" /\ spc' = "sleeping" /\ high_frequency_mode
                 /\ now > next_check_time)
              => ~high_frequency_mode'
           /\ high_frequency_mode
              => now <= next_check_time + HighFreqSleep + MaxDetect]_vars

\* the mode was entered for a boundary and has been left after its expiry
C23_Witness ==
    /\ ~high_frequency_mode
    /\ next_check_time > 0
    /\ now > next_check_time
    /\ now <= next_check_time + HighFreqSleep + MaxDetect
    /\ spc = "sleeping"
    /\ wakeAt = now + HighFreqSleep


\* C22: an exception while scanning one owner's profile leaves the other
\* owners' due entries marked and started in that pass; an exception in one
\* detection leaves every detection of the pass with a result when gather
\* returns; run() never leaves its loop because of an exception, and the sleep
\* of the next pass follows the mode flag, which an expired window clears
C22_FaultIsolation ==
    [][/\ spc' # "stopped"
       /\ passTime' # passTime =>
             \A x \in AllEntries :
                 (Scanned(x) /\ passFaults'[x[1]] = 0 /\ EntryDue(x, now)) =>
                     /\ EntryKey(x, now) \in last_detection'
                     /\ EntryKey(x, now) \notin last_detection => EntryKey(x, now) \in running'
       /\ (spc = "gather" /\ spc' = "loop_top") =>
             \A x \in AllEntries :
                 (scanLog[x].t = passTime /\ scanLog[x].due /\ ~scanLog[x].skipped) =>
                     EntryKey(x, passTime) \in DOMAIN passResults'
       /\ (spc = "loop_top" /\ spc' = "sleeping") =>
             /\ wakeAt' = now + (IF high_frequency_mode THEN HighFreqSleep ELSE LowFreqSleep)
             /\ (high_frequency_mode /\ now > next_check_time) => ~high_frequency_mode'
             /\ (high_frequency_mode /\ now <= next_check_time) => high_frequency_mode'
       /\ spc = "recovering" => spc' \in {"recovering", "loop_top"}
                                /\ high_frequency_mode' = high_frequency_mode]_vars
C22_Witness ==
    /\ spc = "sleeping"
    /\ nfaults = MaxFaults
    /\ passFaults["u1"] = 1
    /\ passFaults["u2"] = 0
    /\ \E k, j \in DOMAIN passResults : passResults[k] = "raised" /\ passResults[j] = "ok"


\* the steps of a trade that reach the exchange, in their prescribed order
StepRank(ev) ==
    CASE ev = "close_order" -> 1
      [] ev = "leverage" -> 2
      [] ev = "open_order" -> 3
      [] ev = "protect_price" -> 4
      [] ev = "tp_order" -> 5
      [] ev = "sl_order" -> 6
      [] OTHER -> 0

\* C24: for one fired signal, the router is entered only by the check that
\* detected the signal, after its notification and with the state stored; a
\* trade starts only from the router, for that signal; within the trade the
\* close, the leverage change, the entry order and the protective orders
\* follow in this order, and the protective steps come only after an entry
\* order that was acknowledged
C24_LifecycleOrder ==
    [][LET tr == ttrace'[RouterTask]
       IN  /\ nsignals' # nsignals =>
                \E ind \in Indicators :
                    /\ xpc[<<ind, LifeKey>>] = "sending"
                    /\ xcur[<<ind, LifeKey>>] = rsig'.signal_type
                    /\ rsig'.monitor_type = ind
                    /\ LastState(ind, LifeKey)' = rsig'.signal_type
                    /\ Len(fired'[<<ind, LifeKey>>]) = Len(fired[<<ind, LifeKey>>]) + 1
           /\ ntrades' # ntrades =>
                /\ rlog' # <<>> /\ rlog'[Len(rlog')] = "execute_trade"
                /\ tsig'[RouterTask] = rsig'.signal_type
                /\ tsym'[RouterTask] = rsig'.symbol
                /\ tuser'[RouterTask] = rsig'.user_id
           /\ ttrace' # ttrace => rpc = "trading" \/ ntrades' # ntrades
           /\ \A i, j \in DOMAIN tr :
                (i < j /\ StepRank(tr[i].ev) > 0 /\ StepRank(tr[j].ev) > 0) =>
                    StepRank(tr[i].ev) < StepRank(tr[j].ev)
           /\ \A j \in DOMAIN tr :
                StepRank(tr[j].ev) > 3 =>
                    \E i \in 1 .. (j - 1) : tr[i].ev = "open_order" /\ tr[i].res = "ok"]_vars
C24_Witness ==
    LET tr == ttrace[RouterTask]
    IN  /\ rpc = "trading"
        /\ rsig.monitor_type = "ma"
        /\ auto_trading["u1"].mode = "mamacd"
        /\ \E i, j, k \in DOMAIN tr :
              /\ i < j /\ j < k
              /\ tr[i].ev = "leverage"
              /\ tr[j].ev = "open_order" /\ tr[j].res = "ok"
              /\ tr[k].ev = "sl_order"


\* C25: place_market_order issues the leverage change before the market order,
\* and when the leverage change returns an error the invocation submits no
\* market order and writes no ledger record
C25_LeverageErrorAborts ==
    [][\A t \in SerialTasks :
         LET tr == ttrace'[t]
         IN  /\ \A j \in DOMAIN tr :
                  tr[j].ev = "open_order" =>
                      \E i \in 1 .. (j - 1) : tr[i].ev = "leverage" /\ tr[i].res # "error"
             /\ \A i, j \in DOMAIN tr :
                  (tr[i].ev = "leverage" /\ tr[i].res = "error" /\ i < j) =>
                      tr[j].ev \in {"notify_trade_failed", "raised"}
             /\ (\E i \in DOMAIN tr : tr[i].ev = "leverage" /\ tr[i].res = "error") =>
                  (ttrace'[t] # <<>> /\ ntrades' = ntrades => system_positions' = system_positions)
             /\ (\E u \in Users, sym \in Symbols :
                    LedgerLen(system_positions', u, sym) > LedgerLen(system_positions, u, sym)) =>
                  /\ tpc[t] = "po_order"
                  /\ tr[Len(tr)].ev = "open_order" /\ tr[Len(tr)].res = "ok"]_vars
C25_Witness ==
    \E t \in SerialTasks :
        /\ tpc[t] = "done"
        /\ \E i \in DOMAIN ttrace[t] :
              /\ ttrace[t][i].ev = "leverage" /\ ttrace[t][i].res = "error"
              /\ i < Len(ttrace[t])
        /\ system_positions[tuser[t]] = <<>>


\* C26 as stated: the request of one call (place_market_order's POST of the
\* entry order is one call) is never sent more than once
C26_SentOnce == gmethod = "POST" => gsent <= 1

\* C26: the POST of one call is sent again only once, by the call itself
\* after the first answer was a timestamp error; every other failure ends the
\* call after one request, and an error answer is returned as it is
C26_ResentOnlyOnTimeError ==
    [][gmethod' = "POST" =>
          /\ (gsent' = gsent + 1 /\ ncalls' = ncalls) =>
                /\ gsent = 1
                /\ glast.kind = "error" /\ glast.code \in TimeErrorCodes
          /\ (gpc = "sent" /\ gpc' # gpc /\ glast'.kind = "error"
                /\ glast'.code \notin TimeErrorCodes) =>
                gpc' = "done" /\ gresult' = glast' /\ gsent' = gsent
          /\ (gpc = "sent" /\ gpc' # gpc /\ glast'.kind = "exception") =>
                gpc' = "done" /\ gresult'.kind = "None" /\ gsent' = gsent]_vars
C26_Witness ==
    /\ gmethod = "POST"
    /\ gpc = "done"
    /\ gsent = 2
    /\ glast.kind = "error"
    /\ glast.code \notin TimeErrorCodes
    /\ gresult = glast


\* C27: every reduce-only order of close_position is sided from a snapshot
\* that the update_positions of the same close call fetched; after a failed
\* refresh no order is issued
C27_FreshSnapshot ==
    \A t \in SerialTasks :
        /\ tpc[t] = "cp_order" => tclose[t].refreshed
        /\ \A i \in DOMAIN ttrace[t] :
              ttrace[t][i].ev = "close_order" => ttrace[t][i].refreshed

\* C28: when the snapshot fetched by close_position holds no position for the
\* symbol, close_position returns its error: no order is sent, then or later
\* in the invocation, and the ledger stays as it was
C28_NoPositionNoOrder ==
    [][\A t \in SerialTasks :
         /\ (tpc[t] = "cp_refresh" /\ tpc'[t] # "cp_refresh" /\ tclose'[t].refreshed
               /\ exPos[tuser[t]][tsym[t]] = None) =>
                /\ tpc'[t] = "notify_close"
                /\ ttrace' = ttrace
                /\ system_positions' = system_positions
         /\ (tpc[t] = "notify_close" /\ tclose[t].side = None) =>
                /\ \A i \in DOMAIN ttrace'[t] :
                      ttrace'[t][i].ev \notin {"close_order", "open_order"}
                /\ system_positions' = system_positions
                /\ tpc'[t] \in {"notify_close", "done", "raised"}]_vars
C28_Witness ==
    \E t \in SerialTasks :
        /\ tpc[t] = "done"
        /\ tclose[t] = [side |-> None, refreshed |-> TRUE]
        /\ ttrace[t] = <<Event("notify_close_failed", "sent")>>
        /\ exPos[tuser[t]][tsym[t]] = None

\* C29: the step in which the closing order for S is acknowledged removes the
\* owner's ledger records for S and nothing else; a closing order that is
\* rejected or unanswered, and a close that ends without an order, leave the
\* whole ledger as it was
C29_LedgerAfterClose ==
    [][\A t \in SerialTasks :
         LET u == tuser[t]
             sym == tsym[t]
             tr == ttrace'[t]
         IN  /\ (tpc[t] = "cp_order" /\ tpc'[t] # "cp_order") =>
                   /\ tr[Len(tr)].ev = "close_order"
                   /\ IF tr[Len(tr)].res = "ok"
                      THEN /\ sym \notin DOMAIN system_positions'[u]
                           /\ \A x \in DOMAIN system_positions[u] \ {sym} :
                                 /\ x \in DOMAIN system_positions'[u]
                                 /\ system_positions'[u][x] = system_positions[u][x]
                           /\ \A v \in Users \ {u} :
                                 system_positions'[v] = system_positions[v]
                      ELSE system_positions' = system_positions
             /\ (tpc[t] = "cp_refresh" /\ tpc'[t] = "notify_close") =>
                   system_positions' = system_positions]_vars
C29_Witness ==
    \E t \in SerialTasks :
        /\ ntrades = MaxTrades
        /\ tpc[t] = "raised"
        /\ ttrace[t][1].ev = "close_order" /\ ttrace[t][1].res = "ok"
        /\ ttrace[t][1].side = "SELL" /\ ttrace[t][1].held
        /\ tsym[t] \notin DOMAIN system_positions[tuser[t]]
        /\ exPos[tuser[t]][tsym[t]] = None


\* C30: after a successful update_positions the map holds exactly the symbols
\* reported with a non-zero quantity, each with the side of its (last) such
\* row: positionSide, or the sign of the quantity when positionSide is BOTH
\* or missing, and with the absolute quantity; whatever the map held before
\* is gone
C30_MapReplaced ==
    upReturn = "True" =>
        LET r == upArgs.response.rows
            held(sym) == {i \in DOMAIN r : r[i].symbol = sym /\ r[i].positionAmt # 0}
        IN  /\ DOMAIN upPositions = {sym \in Symbols : held(sym) # {}}
            /\ \A sym \in DOMAIN upPositions :
                  LET i == CHOOSE j \in held(sym) : \A k \in held(sym) : k <= j
                  IN  /\ upPositions[sym].quantity = Abs(r[i].positionAmt)
                      /\ r[i].positionSide \in {"LONG", "SHORT"} =>
                            upPositions[sym].side = r[i].positionSide
                      /\ r[i].positionSide \in {"BOTH", "absent"} =>
                            upPositions[sym].side =
                               (IF r[i].positionAmt > 0 THEN "LONG" ELSE "SHORT")
C30_Witness ==
    /\ upReturn = "True"
    /\ "ETHUSDT" \in DOMAIN upArgs.before
    /\ Len(upArgs.response.rows) = 2
    /\ upArgs.response.rows[1].positionAmt = 0
    /\ upArgs.response.rows[2] = [symbol |-> "BTCUSDT", positionAmt |-> -2, positionSide |-> "BOTH"]
    /\ upPositions = [x \in {"BTCUSDT"} |-> [side |-> "SHORT", quantity |-> 2]]


\* C31: a check given no payload, or fewer rows than its indicator needs (50
\* for macd, 30 for ma), returns at once: nothing is sent, no signal fires or
\* is forwarded, and the stored states stay as they were
C31_InsufficientData ==
    [][(nchecks' = nchecks + 1
          /\ lastCheck'.data.rows < (IF lastCheck'.ind = "macd" THEN 50 ELSE 30)) =>
             /\ xpc' = xpc
             /\ fired' = fired
             /\ forwarded' = forwarded
             /\ macd_cross_state' = macd_cross_state
             /\ ma_cross_state' = ma_cross_state]_vars
C31_Witness ==
    /\ lastCheck.n > 0
    /\ lastCheck.ind = "macd"
    /\ lastCheck.data = [rows |-> 49, prevA |-> 0, prevB |-> 1, curA |-> 1, curB |-> 0]
    /\ lastCheck.eval = None
    /\ \A x \in XProcs : xpc[x] = "idle" /\ fired[x] = <<>>


\* C32: once stop_monitor has cleared the flag, run() ends and stop_monitor
\* returns; run() leaves its loop only at the loop test, with the pass that
\* was in progress finished and none of its detections still running, and
\* stop_monitor returns only after that
C32_Shutdown ==
    /\ [](stopReq.pc = "returned" => spc = "stopped" /\ running = {})
    /\ [][(spc' = "stopped" /\ spc # "stopped") =>
             spc = "loop_top" /\ running = {} /\ ~active]_vars
    /\ [][(running' # running /\ running' # {} /\ spc = "gather") => spc' = "gather"]_vars
    /\ (~active ~> (spc = "stopped" /\ stopReq.pc = "returned"))
C32_Witness ==
    /\ stopReq = [pc |-> "returned", at |-> "gather"]
    /\ spc = "stopped"
    /\ passResults # <<>>
    /\ \A k \in DOMAIN passResults : k \in last_detection


\* C33: the position that execute_trade or close_position reads from the
\* shared map for its owner and symbol, right after its update_positions
\* returned, comes from a snapshot built for that same owner, never from one
\* built by a refresh for another owner
C33_OwnSnapshot ==
    [][\A t \in SerialTasks :
         (tpc[t] \in {"et_refresh", "cp_refresh"} /\ tpc'[t] # tpc[t]
            /\ tsym[t] \in DOMAIN positions') => posWriter' = tuser[t]]_vars


\* C34: for every crossover key and indicator the fired signals alternate
\* between golden and dead (no two consecutive ones have the same direction),
\* and the state stored under the key is the direction of the last fired
\* signal, or absent when none fired
C34_Alternation ==
    \A x \in XProcs :
        LET st == IF x[1] = "macd" THEN macd_cross_state ELSE ma_cross_state
            n == Len(fired[x])
        IN  /\ \A i \in 1..(n - 1) : fired[x][i] # fired[x][i + 1]
            /\ IF n = 0 THEN x[2] \notin DOMAIN st
                         ELSE x[2] \in DOMAIN st /\ st[x[2]] = fired[x][n]

\* a golden and then a dead signal fired for one key, and a further dead
\* crossing evaluated for it fires nothing
C34_Witness ==
    \E x \in XProcs :
        /\ fired[x] = <<"golden", "dead">>
        /\ lastCheck.n = MaxChecks /\ lastCheck.ind = x[1] /\ lastCheck.key = x[2]
        /\ lastCheck.eval = "dead" /\ lastCheck.before = "dead"
        /\ xpc[x] = "idle"


\* C35: at most one execute_trade is in flight for one owner and symbol at
\* any time, whatever the interleaving of the detections of a pass and of
\* trade-mode changes made meanwhile
C35_OneTradeInFlight ==
    \A t1, t2 \in Tasks :
        (t1 # t2 /\ tpc[t1] \notin {"idle", "done"} /\ tpc[t2] \notin {"idle", "done"})
           => <<tuser[t1], tsym[t1]>> # <<tuser[t2], tsym[t2]>>


\* C36: whenever update_positions returns False (the position-risk request
\* gave an error dict or no result) the position map is exactly what it was
\* before the call
C36_FailureKeepsMap ==
    upReturn = "False" => upPositions = upArgs.before


\* C37: every get_kline call that is suspended (on the cache lock, in its
\* upstream call or on a future) returns eventually, given that upstream calls
\* return; and whenever the cache lock is free pending_requests is empty
C37_AlwaysReturns ==
    /\ [](lock = NoOne => DOMAIN pending_requests = {})
    /\ \A c \in Callers : InFlight(c) ~> (cpc[c] = "returned")

\* a caller that found the lock taken by a call for its own key has waited,
\* fetched for itself and returned, and the lock is free again
C37_Witness ==
    \E c \in Callers :
        /\ cpc[c] = "returned" /\ cfetched[c] /\ cconc[c] # {}
        /\ lock = NoOne /\ lockWaiters = <<>>
        /\ \A d \in Callers : cpc[d] = "returned"


\* C38: the stored crossover state changes, and handle_trading_signal is
\* called, only in the step in which the notification of that detection was
\* sent, and then with the direction just notified; when sending fails the
\* check ends with both state maps, the forwarded signals, the router and the
\* trades as they were
C38_NotifyFirst ==
    [][\A x \in XProcs :
         LET st == IF x[1] = "macd" THEN macd_cross_state ELSE ma_cross_state
             stN == IF x[1] = "macd" THEN macd_cross_state' ELSE ma_cross_state'
             old == IF x[2] \in DOMAIN st THEN st[x[2]] ELSE None
             new == IF x[2] \in DOMAIN stN THEN stN[x[2]] ELSE None
             sent == xpc[x] = "sending" /\ fired'[x] = Append(fired[x], xcur[x])
             failed == xpc[x] = "sending" /\ xpc'[x] # "sending" /\ fired'[x] = fired[x]
         IN  /\ (new # old \/ forwarded'[x] # forwarded[x]) =>
                   /\ sent
                   /\ new = xcur[x]
                   /\ forwarded'[x] = Append(forwarded[x], xcur[x])
             /\ (nsignals' # nsignals /\ rsig'.monitor_type = x[1]
                    /\ rsig'.user_id = x[2][1]) =>
                   sent /\ rsig'.signal_type = xcur[x]
             /\ failed =>
                   /\ xpc'[x] = "idle"
                   /\ macd_cross_state' = macd_cross_state
                   /\ ma_cross_state' = ma_cross_state
                   /\ forwarded' = forwarded
                   /\ UNCHANGED <<rpc, rsig, rlog, nsignals, ntrades, tpc, ttrace, exPos>>]_vars

\* the notification of a dead MACD crossing could not be sent after a golden
\* one had been sent and traded: the state is still golden, one signal was
\* forwarded, one trade was started
C38_Witness ==
    LET x == <<"macd", LifeKey>>
    IN  /\ lastCheck.n > 1 /\ lastCheck.ind = "macd" /\ lastCheck.eval = "dead"
        /\ xpc[x] = "idle" /\ xcur[x] = "dead"
        /\ fired[x] = <<"golden">> /\ forwarded[x] = <<"golden">>
        /\ LifeKey \in DOMAIN macd_cross_state /\ macd_cross_state[LifeKey] = "golden"
        /\ nsignals = 1 /\ ntrades = 1 /\ rpc = "idle"


\* C39: once an owner was told that monitor kinds are switched off, the
\* persisted profile has enabled = false for those kinds and active true
\* exactly when some kind is still enabled, and the scan passes over every
\* entry of that owner with such a kind, so that none is enqueued
C39_DisablePersisted ==
    \A u \in Users :
        disableReq[u] # {} =>
           /\ \A mt \in disableReq[u] : ~profEnabled[u][mt]
           /\ profActive[u] <=> (\E mt \in MonitorKinds : profEnabled[u][mt])
           /\ \A x \in AllEntries :
                 (x[1] = u /\ EntryOf(x).monitor \in disableReq[u]) => ~Scanned(x)

====
